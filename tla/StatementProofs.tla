-------------------------- MODULE StatementProofs --------------------------
(***************************************************************************)
(* What happens to a statement on its way: how the entry point forwards    *)
(* it, and how its text is cut from what is typed, read by the lexer,      *)
(* journaled and read back, and how its WHERE clause is parsed.            *)
(*                                                                         *)
(* Of EntryRouter, for any clients, scripts and bounds: the inductive      *)
(* invariant ties the place a connection has reached to how often its      *)
(* statement has been executed, and the history of USEs to the databases   *)
(* that are current in the storages.                                       *)
(*                                                                         *)
(* Of StatementText, for any length of file, of journal and any number of  *)
(* torn appends: the inductive invariant JournalHolds says that every      *)
(* statement is one line, and that every record no crash has harmed stands *)
(* in the journal as one whole line; the lemma Alike says that the lexer   *)
(* finds the same tokens in two texts that differ in blanks, so that what  *)
(* REVERT reads from such a line is what was executed.  The rest is about  *)
(* the cuts: a piece of a text that begins and ends outside of strings has *)
(* the tokens the whole text has there, and wherever the client cuts, what *)
(* it has sent so far is what the text says up to there.                   *)
(*                                                                         *)
(* Of WhereParser, for any columns, any number of pieces of a clause and   *)
(* any nesting: where the pieces lie in the tokens (Laid) and how many     *)
(* parentheses are open behind each (Heights) are functions of the place,  *)
(* so that a separator on the outermost level is one the parser's loops    *)
(* stop at. What means something is read to its end (ReadToEnd), what is   *)
(* read means what its nodes say (Sound, Accepted), and the evaluator      *)
(* finds that (ClauseEvaluated).                                           *)
(***************************************************************************)
EXTENDS EntryRouter, StatementText, WhereParser, Induction, SequenceTheorems, FiniteSetTheorems

-----------------------------------------------------------------------------
(* The router: shapes and places.                                           *)
Pcs == {"idle", "read", "picked", "sent", "ran", "answered", "broken"}
Answers == {"none", "result", "no storage", "storage down", "empty"}

(* A storage's catalog; a current database exists. *)
CatOK(cat) ==
  /\ cat = [dbs |-> cat.dbs, current |-> cat.current]
  /\ Cat!Created(cat) \subseteq Dbs
  /\ cat.current \in Cat!Created(cat) \cup {None}

(* The shapes of the variables; the counter stays below the list's length. *)
Shapes ==
  /\ size \in 0..MaxStorages /\ rr \in 0..MaxStorages /\ (size > 0 => rr < size)
  /\ up \in [Nodes -> BOOLEAN]
  /\ storage = [s \in Nodes |-> storage[s]] /\ \A s \in Nodes : CatOK(storage[s])
  /\ deaths \in 0..MaxDeaths
  /\ conn \in [Clients -> [pc : Pcs, at : 0..size]]
  /\ step \in [Clients -> Nat]
  /\ got \in [Clients -> Answers]
  /\ runs \in [Clients -> {0, 1}]
  /\ chosen \in [Clients -> [Nodes -> Dbs \cup {None}]]

(* A connection past its reading has a storage and a statement to carry. *)
Underway(c) ==
  /\ conn[c].pc \notin {"idle", "read"} => conn[c].at \in Nodes
  /\ step[c] \in 1..Len(Script[c]) + 1
  /\ conn[c].pc # "idle" => step[c] <= Len(Script[c])

(* How often the statement was executed, by the place it has reached. *)
Counted(c) ==
  /\ conn[c].pc # "idle" => got[c] = "none"
  /\ conn[c].pc \in {"read", "picked", "sent"} => runs[c] = 0
  /\ conn[c].pc \in {"ran", "answered"} => runs[c] = 1
  /\ got[c] \in {"no storage", "storage down"} => runs[c] = 0
  /\ got[c] = "result" => runs[c] = 1

(* The USEs that stand at a storage name its current database. *)
StandingIsCurrent(s) == Standing(s) = {storage[s].current} \ {None}

RouterInv ==
  /\ Shapes
  /\ \A c \in Clients : Underway(c) /\ Counted(c)
  /\ \A s \in Nodes : StandingIsCurrent(s)

-----------------------------------------------------------------------------
(* The statement a connection carries is one of those clients send. *)
LEMMA CarriedStatement ==
  ASSUME EntryRouterAssumption, NEW c \in Clients, Underway(c), conn[c].pc # "idle"
  PROVE  IsStatement(Script[c][step[c]])
<1>1. Script[c] \in Seq(Statements) /\ step[c] \in 1..Len(Script[c])
  BY DEF EntryRouterAssumption, Underway
<1> QED BY <1>1 DEF EntryRouterAssumption

(* A statement keeps a catalog in order; only a USE and a DROP DATABASE     *)
(* that are accepted touch the current database.                            *)
CurrentAfter(name, stmt, accepted) ==
  IF ~accepted THEN name
  ELSE IF stmt.op = "use" THEN stmt.db
  ELSE IF stmt.op = "drop_database" /\ name = stmt.db THEN None ELSE name

LEMMA Executed ==
  ASSUME NEW cat, CatOK(cat), NEW stmt, IsStatement(stmt), None \notin Dbs
  PROVE  LET done == Cat!exec_statement(cat, stmt)
         IN  CatOK(done.cat) /\ done.cat.current = CurrentAfter(cat.current, stmt, done.ok)
<1> DEFINE done == Cat!exec_statement(cat, stmt)
<1>1. ASSUME NEW d \in Dbs, NEW tables, NEW new, new = Cat!SetDb(cat, d, tables)
      PROVE  CatOK(new) /\ new.current = cat.current
  <2>1. new = [dbs |-> Cat!With(cat.dbs, d, tables), current |-> cat.current]
    BY <1>1 DEF CatOK, Cat!SetDb
  <2>2. Cat!Created(new) = Cat!Created(cat) \cup {d}
    BY <2>1 DEF Cat!Created, Cat!With
  <2> QED BY <2>1, <2>2 DEF CatOK
<1>2. CASE stmt.op \in OnDatabases
  <2>1. stmt.db \in Dbs
    BY <1>2 DEF IsStatement, OnDatabases
  <2>2. CASE stmt.op = "create_database"
    <3>1. done = IF stmt.db \in Cat!Created(cat) THEN [cat |-> cat, ok |-> FALSE]
                 ELSE [cat |-> Cat!SetDb(cat, stmt.db, Cat!NoTables), ok |-> TRUE]
      BY <2>2 DEF Cat!exec_statement, Cat!create_database, Cat!Done, Cat!Failed
    <3> QED BY <1>1, <2>1, <2>2, <3>1 DEF CurrentAfter
  <2>3. CASE stmt.op = "drop_database"
    <3> DEFINE new == [dbs |-> Cat!Without(cat.dbs, stmt.db),
                       current |-> IF cat.current = stmt.db THEN None ELSE cat.current]
    <3>1. done = IF stmt.db \notin Cat!Created(cat) THEN [cat |-> cat, ok |-> FALSE]
                 ELSE [cat |-> new, ok |-> TRUE]
      BY <2>3 DEF Cat!exec_statement, Cat!drop_database, Cat!Done, Cat!Failed
    <3>2. Cat!Created(new) = Cat!Created(cat) \ {stmt.db}
      BY DEF Cat!Created, Cat!Without
    <3>3. CatOK(new)
      BY <3>2 DEF CatOK
    <3>4. new.current = CurrentAfter(cat.current, stmt, TRUE)
      BY <2>3 DEF CurrentAfter
    <3> HIDE DEF new
    <3> QED BY <3>1, <3>3, <3>4 DEF CurrentAfter
  <2>4. CASE stmt.op = "use"
    <3>1. done = IF stmt.db \in Cat!Created(cat)
                 THEN [cat |-> [cat EXCEPT !.current = stmt.db], ok |-> TRUE]
                 ELSE [cat |-> cat, ok |-> FALSE]
      BY <2>4 DEF Cat!exec_statement, Cat!set_current, Cat!Done, Cat!Failed
    <3> QED BY <2>4, <3>1 DEF CurrentAfter, CatOK, Cat!Created
  <2> QED BY <1>2, <2>2, <2>3, <2>4 DEF OnDatabases
<1>3. CASE stmt.op \notin OnDatabases
  <2> DEFINE d == Cat!HomeDb(cat, stmt)
             r == Cat!OnTables(cat.dbs[d], stmt)
  <2>1. done = IF d \notin Cat!Created(cat) THEN [cat |-> cat, ok |-> FALSE]
               ELSE [cat |-> Cat!SetDb(cat, d, r.tables), ok |-> r.ok]
    BY <1>3 DEF Cat!exec_statement, Cat!Failed, OnDatabases
  <2>2. CurrentAfter(cat.current, stmt, done.ok) = cat.current
    BY <1>3 DEF CurrentAfter, OnDatabases
  <2>3. d \in Cat!Created(cat) => d \in Dbs
    BY DEF CatOK
  <2> HIDE DEF d, r
  <2>4. CASE d \in Cat!Created(cat)
    BY <1>1, <2>1, <2>2, <2>3, <2>4
  <2>5. CASE d \notin Cat!Created(cat)
    <3>1. done.cat = cat
      BY <2>1, <2>5
    <3> QED BY <2>2, <3>1
  <2> QED BY <2>4, <2>5
<1> QED BY <1>2, <1>3

LEMMA EmptyOK == CatOK(Cat!EmptyCatalog)
BY DEF CatOK, Cat!EmptyCatalog, Cat!Created

LEMMA InvInit == EntryRouterAssumption /\ EntryRouterInit => RouterInv
<1> SUFFICES ASSUME EntryRouterAssumption, EntryRouterInit PROVE RouterInv
  OBVIOUS
<1>1. Shapes
  BY EmptyOK DEF EntryRouterInit, EntryRouterAssumption, Shapes, Hung, Pcs, Answers, Nodes
<1>2. ASSUME NEW c \in Clients PROVE Underway(c)
  <2>1. Len(Script[c]) \in Nat
    BY DEF EntryRouterAssumption
  <2> QED BY <2>1 DEF EntryRouterInit, Underway, Hung
<1>3. ASSUME NEW c \in Clients PROVE Counted(c)
  BY DEF EntryRouterInit, Counted, Hung
<1>4. ASSUME NEW s \in Nodes PROVE StandingIsCurrent(s)
  BY DEF EntryRouterInit, StandingIsCurrent, Standing, Cat!EmptyCatalog
<1> QED BY <1>1, <1>2, <1>3, <1>4 DEF RouterInv

-----------------------------------------------------------------------------
(* The connection after a step of its own. *)
LEMMA Moving ==
  ASSUME Shapes, NEW c \in Clients, NEW pc \in Pcs, MovedTo(c, pc)
  PROVE  /\ conn' = [conn EXCEPT ![c] = [pc |-> pc, at |-> conn[c].at]]
         /\ conn' \in [Clients -> [pc : Pcs, at : 0..size]]
<1>1. conn[c] \in [pc : Pcs, at : 0..size]
  BY DEF Shapes
<1>2. conn[c] = [pc |-> conn[c].pc, at |-> conn[c].at] /\ conn[c].at \in 0..size
  BY <1>1
<1>3. [conn[c] EXCEPT !.pc = pc] = [pc |-> pc, at |-> conn[c].at]
  BY <1>2
<1>4. conn' = [conn EXCEPT ![c] = [pc |-> pc, at |-> conn[c].at]]
  BY <1>3 DEF MovedTo
<1>5. [pc |-> pc, at |-> conn[c].at] \in [pc : Pcs, at : 0..size]
  BY <1>2
<1> QED BY <1>4, <1>5 DEF Shapes

LEMMA Answering ==
  ASSUME Shapes, NEW c \in Clients, NEW text \in Answers, Answer(c, text)
  PROVE  /\ conn' \in [Clients -> [pc : Pcs, at : 0..size]]
         /\ step' \in [Clients -> Nat]
         /\ got' \in [Clients -> Answers]
<1>1. Hung \in [pc : Pcs, at : 0..size]
  BY DEF Shapes, Hung, Pcs
<1> QED BY <1>1 DEF Answer, Shapes

(* What an execution does: the storage's catalog after it, and whether the  *)
(* statement was accepted.                                                  *)
ExecutedAt(c, cat, accepted) ==
  LET s == conn[c].at
      stmt == Script[c][step[c]]
  IN  /\ s \in Nodes /\ IsStatement(stmt)
      /\ CatOK(cat) /\ cat.current = CurrentAfter(storage[s].current, stmt, accepted)
      /\ storage' = [storage EXCEPT ![s] = cat]
      /\ chosen' = ChosenAfter(c, s, stmt, accepted)

LEMMA ExecuteFacts ==
  ASSUME EntryRouterAssumption, RouterInv, NEW c \in Clients, Execute(c)
  PROVE  \E cat, accepted : ExecutedAt(c, cat, accepted)
<1> DEFINE s == conn[c].at
           stmt == Script[c][step[c]]
           done == Cat!exec_statement(storage[s], stmt)
<1>1. Shapes /\ Underway(c) /\ conn[c].pc = "sent"
  BY DEF RouterInv, Execute
<1>2. s \in Nodes /\ IsStatement(stmt)
  BY <1>1, CarriedStatement DEF Underway
<1>3. storage' = [storage EXCEPT ![s] = done.cat] /\ chosen' = ChosenAfter(c, s, stmt, done.ok)
  BY DEF Execute
<1>4. CatOK(storage[s]) /\ None \notin Dbs
  BY <1>1, <1>2 DEF Shapes, EntryRouterAssumption
<1>5. CatOK(done.cat) /\ done.cat.current = CurrentAfter(storage[s].current, stmt, done.ok)
  BY <1>2, <1>4, Executed
<1>6. ExecutedAt(c, done.cat, done.ok)
  BY <1>2, <1>3, <1>5 DEF ExecutedAt
<1> QED BY <1>6

LEMMA ChosenAfterTyped ==
  ASSUME NEW c, NEW s \in Nodes, NEW stmt, IsStatement(stmt), NEW accepted,
         chosen \in [Clients -> [Nodes -> Dbs \cup {None}]]
  PROVE  ChosenAfter(c, s, stmt, accepted) \in [Clients -> [Nodes -> Dbs \cup {None}]]
<1>1. stmt.op = "use" => stmt.db \in Dbs
  BY DEF IsStatement, OnDatabases
<1> QED BY <1>1 DEF ChosenAfter

LEMMA ShapesStep ==
  ASSUME EntryRouterAssumption, RouterInv, [EntryRouterNext]_routerVars
  PROVE  Shapes'
<1>0. Shapes /\ (\A c \in Clients : Underway(c)) /\ MaxStorages \in Nat /\ MaxDeaths \in Nat
  BY DEF RouterInv, EntryRouterAssumption
<1> USE DEF Nodes
<1>1. ASSUME NEW c \in Clients, Open(c)
      PROVE  Shapes'
  <2>1. conn' \in [Clients -> [pc : Pcs, at : 0..size]]
    BY <1>0, <1>1, Moving DEF Open, Pcs
  <2>2. got' = [got EXCEPT ![c] = "none"] /\ runs' = [runs EXCEPT ![c] = 0]
    BY <1>1 DEF Open
  <2>3. got' \in [Clients -> Answers] /\ runs' \in [Clients -> {0, 1}]
    BY <1>0, <2>2 DEF Shapes, Answers
  <2> QED BY <1>0, <1>1, <2>1, <2>3 DEF Open, storageVars, Shapes
<1>2. ASSUME NEW c \in Clients, Pick(c)
      PROVE  Shapes'
  <2>1. size \in Nat /\ rr \in Nat /\ rr < size /\ size <= MaxStorages
    BY <1>0, <1>2 DEF Pick, Shapes
  <2>2. rr' \in 0..MaxStorages /\ rr' < size /\ rr + 1 \in 0..size
    <3>1. (rr + 1) % size \in 0..size - 1
      BY <2>1
    <3> QED BY <1>0, <1>2, <2>1, <3>1 DEF Pick
  <2>3. [pc |-> "picked", at |-> rr + 1] \in [pc : Pcs, at : 0..size]
    BY <2>2 DEF Pcs
  <2>4. conn' \in [Clients -> [pc : Pcs, at : 0..size]]
    BY <1>0, <1>2, <2>3 DEF Pick, Shapes
  <2> QED BY <1>0, <1>2, <2>2, <2>4 DEF Pick, Shapes, storageVars, clientVars, historyVars
<1>3. ASSUME NEW c \in Clients, NoStorage(c) \/ StorageDown(c) \/ Relay(c) \/ RelayNothing(c)
      PROVE  Shapes'
  <2>1. PICK text \in Answers : Answer(c, text)
    BY <1>3 DEF NoStorage, StorageDown, Relay, RelayNothing, Answers
  <2>2. UNCHANGED <<size, rr, storageVars, historyVars>>
    BY <1>3 DEF NoStorage, StorageDown, Relay, RelayNothing
  <2> QED BY <1>0, <2>1, <2>2, Answering DEF Shapes, storageVars, historyVars
<1>4. ASSUME NEW c \in Clients, Forward(c) \/ Reply(c)
      PROVE  Shapes'
  <2>1. conn' \in [Clients -> [pc : Pcs, at : 0..size]]
    BY <1>0, <1>4, Moving DEF Forward, Reply, Pcs
  <2> QED BY <1>0, <1>4, <2>1 DEF Forward, Reply, Shapes, storageVars, clientVars, historyVars
<1>5. ASSUME NEW c \in Clients, Execute(c)
      PROVE  Shapes'
  <2>1. runs[c] = 0
    BY <1>5 DEF Execute, RouterInv, Counted
  <2>2. conn' \in [Clients -> [pc : Pcs, at : 0..size]]
    BY <1>0, <1>5, Moving DEF Execute, Pcs
  <2>3. runs' \in [Clients -> {0, 1}]
    BY <1>0, <1>5, <2>1 DEF Execute, Shapes
  <2>4. PICK cat, accepted : ExecutedAt(c, cat, accepted)
    BY <1>5, ExecuteFacts
  <2>5. /\ storage' = [s \in Nodes |-> storage'[s]]
        /\ \A s \in Nodes : CatOK(storage'[s])
    BY <1>0, <2>4 DEF ExecutedAt, Shapes
  <2>6. chosen' \in [Clients -> [Nodes -> Dbs \cup {None}]]
    BY <1>0, <2>4, ChosenAfterTyped DEF ExecutedAt, Shapes
  <2> QED BY <1>0, <1>5, <2>2, <2>3, <2>5, <2>6 DEF Execute, Shapes, clientVars
<1>6. ASSUME NEW s \in Nodes, Die(s)
      PROVE  Shapes'
  <2>1. deaths' \in 0..MaxDeaths /\ UNCHANGED <<size, rr, step, got, runs>>
    BY <1>0, <1>6 DEF Die, clientVars, Shapes
  <2>2. /\ up' \in [Nodes -> BOOLEAN]
        /\ storage' = [n \in Nodes |-> storage'[n]] /\ \A n \in Nodes : CatOK(storage'[n])
    BY <1>0, <1>6, EmptyOK DEF Die, Shapes
  <2>3. conn' \in [Clients -> [pc : Pcs, at : 0..size]]
    <3>1. ASSUME NEW c \in Clients
          PROVE  conn[c] \in [pc : Pcs, at : 0..size]
      BY <1>0 DEF Shapes
    <3>2. ASSUME NEW c \in Clients
          PROVE  [conn[c] EXCEPT !.pc = "broken"] \in [pc : Pcs, at : 0..size]
      BY <3>1 DEF Pcs
    <3> QED BY <1>6, <3>1, <3>2 DEF Die
  <2>4. chosen' \in [Clients -> [Nodes -> Dbs \cup {None}]]
    BY <1>0, <1>6 DEF Die, Shapes
  <2> QED BY <1>0, <2>1, <2>2, <2>3, <2>4 DEF Shapes
<1>7. ASSUME NEW s \in Nodes, Start(s)
      PROVE  Shapes'
  <2>1. up' \in [Nodes -> BOOLEAN]
    BY <1>0, <1>7 DEF Start, Shapes
  <2> QED BY <1>0, <1>7, <2>1 DEF Start, Shapes, clientVars, historyVars
<1>8. CASE UNCHANGED routerVars
  BY <1>0, <1>8 DEF routerVars, Shapes, storageVars, clientVars, historyVars
<1> QED BY <1>1, <1>2, <1>3, <1>4, <1>5, <1>6, <1>7, <1>8
        DEF EntryRouterNext, RouterThread, StorageThread

(* A client whose connection and answer a step leaves alone. *)
LEMMA OthersUndisturbed ==
  ASSUME NEW d, Underway(d), Counted(d), UNCHANGED <<conn[d], step[d], got[d], runs[d], size>>
  PROVE  Underway(d)' /\ Counted(d)'
BY DEF Underway, Counted, Nodes

LEMMA ClientsStep ==
  ASSUME EntryRouterAssumption, RouterInv, [EntryRouterNext]_routerVars,
         NEW d \in Clients
  PROVE  Underway(d)' /\ Counted(d)'
<1>0. /\ Shapes /\ Underway(d) /\ Counted(d)
      /\ Len(Script[d]) \in Nat /\ step[d] \in Nat
  BY DEF RouterInv, EntryRouterAssumption, Shapes
<1>1. ASSUME NEW c \in Clients, Open(c)
      PROVE  Underway(d)' /\ Counted(d)'
  <2>1. conn' = [conn EXCEPT ![c] = [pc |-> "read", at |-> conn[c].at]]
    BY <1>0, <1>1, Moving DEF Open, Pcs
  <2>2. CASE d = c
    <3>1. conn'[d].pc = "read" /\ got'[d] = "none" /\ runs'[d] = 0
      BY <1>0, <1>1, <2>1, <2>2 DEF Open, Shapes
    <3>2. step'[d] = step[d] /\ step[d] <= Len(Script[d])
      BY <1>1, <2>2 DEF Open
    <3> QED BY <1>0, <3>1, <3>2 DEF Underway, Counted
  <2>3. CASE d # c
    <3>1. UNCHANGED <<conn[d], step[d], got[d], runs[d], size>>
      BY <1>0, <1>1, <2>1, <2>3 DEF Open, Shapes
    <3> QED BY <1>0, <3>1, OthersUndisturbed
  <2> QED BY <2>2, <2>3
<1>2. ASSUME NEW c \in Clients, Pick(c)
      PROVE  Underway(d)' /\ Counted(d)'
  <2>1. UNCHANGED <<step, got, runs, size>>
    BY <1>2 DEF Pick, clientVars, historyVars
  <2>2. CASE d = c
    <3>1. conn[d].pc = "read" /\ conn'[d].pc = "picked" /\ conn'[d].at = rr + 1
      BY <1>0, <1>2, <2>2 DEF Pick, Shapes
    <3>2. rr + 1 \in Nodes
      BY <1>0, <1>2 DEF Pick, Shapes, Nodes
    <3> QED BY <1>0, <2>1, <3>1, <3>2 DEF Underway, Counted, Nodes
  <2>3. CASE d # c
    <3>1. conn'[d] = conn[d]
      BY <1>0, <1>2, <2>3 DEF Pick, Shapes
    <3> QED BY <1>0, <2>1, <3>1, OthersUndisturbed
  <2> QED BY <2>2, <2>3
<1>3. ASSUME NEW c \in Clients, NoStorage(c) \/ StorageDown(c) \/ Relay(c) \/ RelayNothing(c)
      PROVE  Underway(d)' /\ Counted(d)'
  <2>1. PICK text : /\ Answer(c, text)
                    /\ conn[c].pc # "idle"
                    /\ \/ text \in {"no storage", "storage down"} /\ conn[c].pc \in {"read", "picked"}
                       \/ text = "result" /\ conn[c].pc = "answered"
                       \/ text = "empty"
    BY <1>3 DEF NoStorage, StorageDown, Relay, RelayNothing
  <2>2. UNCHANGED <<runs, size>>
    BY <1>3 DEF NoStorage, StorageDown, Relay, RelayNothing, historyVars
  <2>3. CASE d = c
    <3>1. conn'[d].pc = "idle" /\ got'[d] = text /\ step'[d] = step[d] + 1
      BY <1>0, <2>1, <2>3 DEF Answer, Hung, Shapes
    <3>2. step[d] <= Len(Script[d]) /\ step[d] \in 1..Len(Script[d]) + 1
      BY <1>0, <2>1, <2>3 DEF Underway
    <3>3. step'[d] \in 1..Len(Script[d]) + 1
      BY <1>0, <3>1, <3>2
    <3> QED BY <1>0, <2>1, <2>2, <2>3, <3>1, <3>3 DEF Underway, Counted
  <2>4. CASE d # c
    <3>1. UNCHANGED <<conn[d], step[d], got[d]>>
      BY <1>0, <2>1, <2>4 DEF Answer, Shapes
    <3> QED BY <1>0, <2>2, <3>1, OthersUndisturbed
  <2> QED BY <2>3, <2>4
<1>4. ASSUME NEW c \in Clients, Forward(c) \/ Reply(c)
      PROVE  Underway(d)' /\ Counted(d)'
  <2>1. PICK pc \in Pcs : /\ MovedTo(c, pc)
                          /\ \/ conn[c].pc = "picked" /\ pc = "sent"
                             \/ conn[c].pc = "ran" /\ pc = "answered"
    BY <1>4 DEF Forward, Reply, Pcs
  <2>2. UNCHANGED <<step, got, runs, size>>
    BY <1>4 DEF Forward, Reply, clientVars, historyVars
  <2>3. conn' = [conn EXCEPT ![c] = [pc |-> pc, at |-> conn[c].at]]
    BY <1>0, <2>1, Moving
  <2>4. CASE d = c
    <3>1. conn'[d].pc = pc /\ conn'[d].at = conn[d].at
      BY <1>0, <2>3, <2>4 DEF Shapes
    <3> QED BY <1>0, <2>1, <2>2, <2>4, <3>1 DEF Underway, Counted, Nodes
  <2>5. CASE d # c
    <3>1. conn'[d] = conn[d]
      BY <1>0, <2>3, <2>5 DEF Shapes
    <3> QED BY <1>0, <2>2, <3>1, OthersUndisturbed
  <2> QED BY <2>4, <2>5
<1>5. ASSUME NEW c \in Clients, Execute(c)
      PROVE  Underway(d)' /\ Counted(d)'
  <2>1. conn' = [conn EXCEPT ![c] = [pc |-> "ran", at |-> conn[c].at]]
    BY <1>0, <1>5, Moving DEF Execute, Pcs
  <2>2. /\ conn[c].pc = "sent"
        /\ runs' = [runs EXCEPT ![c] = runs[c] + 1]
        /\ UNCHANGED <<size, step, got>>
    BY <1>5 DEF Execute, clientVars
  <2>3. CASE d = c
    <3>1. conn'[d].pc = "ran" /\ conn'[d].at = conn[d].at
      BY <1>0, <2>1, <2>3 DEF Shapes
    <3>2. runs[d] = 0
      BY <1>0, <2>2, <2>3 DEF Counted
    <3>3. runs'[d] = 1
      BY <1>0, <2>2, <2>3, <3>2 DEF Shapes
    <3> QED BY <1>0, <2>2, <2>3, <3>1, <3>3 DEF Underway, Counted, Nodes
  <2>4. CASE d # c
    <3>1. UNCHANGED <<conn[d], runs[d]>>
      BY <1>0, <2>1, <2>2, <2>4 DEF Shapes
    <3> QED BY <1>0, <2>2, <3>1, OthersUndisturbed
  <2> QED BY <2>3, <2>4
<1>6. ASSUME NEW s \in Nodes, Die(s)
      PROVE  Underway(d)' /\ Counted(d)'
  <2>1. UNCHANGED <<step, got, runs, size>>
    BY <1>6 DEF Die, clientVars
  <2>2. CASE conn[d].at = s /\ conn[d].pc \in {"sent", "ran"}
    <3>1. conn'[d] = [conn[d] EXCEPT !.pc = "broken"]
      BY <1>6, <2>2 DEF Die
    <3>2. conn[d] \in [pc : Pcs, at : 0..size]
      BY <1>0 DEF Shapes
    <3>3. conn'[d].pc = "broken" /\ conn'[d].at = conn[d].at
      BY <3>1, <3>2
    <3> QED BY <1>0, <2>1, <2>2, <3>3 DEF Underway, Counted, Nodes
  <2>3. CASE ~ (conn[d].at = s /\ conn[d].pc \in {"sent", "ran"})
    <3>1. conn'[d] = conn[d]
      BY <1>6, <2>3 DEF Die
    <3> QED BY <1>0, <2>1, <3>1, OthersUndisturbed
  <2> QED BY <2>2, <2>3
<1>7. CASE (\E s \in Nodes : Start(s)) \/ UNCHANGED routerVars
  <2>1. UNCHANGED <<conn, step, got, runs, size>>
    BY <1>7 DEF Start, routerVars, clientVars, historyVars
  <2> QED BY <1>0, <2>1, OthersUndisturbed
<1> QED BY <1>1, <1>2, <1>3, <1>4, <1>5, <1>6, <1>7
        DEF EntryRouterNext, RouterThread, StorageThread

LEMMA StandingStep ==
  ASSUME EntryRouterAssumption, RouterInv, [EntryRouterNext]_routerVars,
         NEW n \in Nodes
  PROVE  StandingIsCurrent(n)'
<1>0. Shapes /\ StandingIsCurrent(n) /\ None \notin Dbs
  BY DEF RouterInv, EntryRouterAssumption
<1>1. CASE UNCHANGED <<storage, chosen>>
  BY <1>0, <1>1 DEF StandingIsCurrent, Standing
<1>2. ASSUME NEW c \in Clients, Execute(c)
      PROVE  StandingIsCurrent(n)'
  <2>1. PICK cat, accepted : ExecutedAt(c, cat, accepted)
    BY <1>2, ExecuteFacts
  <2> DEFINE s == conn[c].at
             stmt == Script[c][step[c]]
  <2>2. /\ s \in Nodes /\ IsStatement(stmt)
        /\ storage' = [storage EXCEPT ![s] = cat]
        /\ cat.current = CurrentAfter(storage[s].current, stmt, accepted)
        /\ chosen' = ChosenAfter(c, s, stmt, accepted)
    BY <2>1 DEF ExecutedAt
  <2>3. \A d \in Clients : chosen[d] \in [Nodes -> Dbs \cup {None}]
    BY <1>0 DEF Shapes
  <2> HIDE DEF s, stmt
  <2>4. CASE n # s
    <3>1. storage'[n] = storage[n]
      BY <1>0, <2>2, <2>4 DEF Shapes
    <3>2. \A d \in Clients : chosen'[d][n] = chosen[d][n]
      BY <2>2, <2>3, <2>4 DEF ChosenAfter
    <3> QED BY <1>0, <3>1, <3>2 DEF StandingIsCurrent, Standing
  <2>5. CASE n = s
    <3>1. storage'[n].current = CurrentAfter(storage[n].current, stmt, accepted)
      BY <1>0, <2>2, <2>5 DEF Shapes
    <3>2. CASE accepted /\ stmt.op = "use"
      <4>1. stmt.db \in Dbs /\ storage'[n].current = stmt.db
        BY <2>2, <3>1, <3>2 DEF IsStatement, CurrentAfter
      <4>2. \A d \in Clients : chosen'[d][n] \in {stmt.db, None}
        BY <2>2, <2>3, <2>5, <3>2 DEF ChosenAfter
      <4>3. chosen'[c][n] = stmt.db
        BY <2>2, <2>3, <2>5, <3>2 DEF ChosenAfter
      <4> QED BY <1>0, <4>1, <4>2, <4>3 DEF StandingIsCurrent, Standing
    <3>3. CASE accepted /\ stmt.op = "drop_database"
      <4>1. \A d \in Clients : chosen'[d][n] = IF chosen[d][n] = stmt.db THEN None ELSE chosen[d][n]
        BY <2>2, <2>3, <2>5, <3>3 DEF ChosenAfter
      <4>2. storage'[n].current = IF storage[n].current = stmt.db THEN None ELSE storage[n].current
        BY <3>1, <3>3 DEF CurrentAfter
      <4>3. \A d \in Clients : chosen[d][n] = stmt.db => stmt.db = storage[n].current
        <5> stmt.db # None
          BY <1>0, <2>2, <3>3 DEF IsStatement
        <5> QED BY <1>0 DEF StandingIsCurrent, Standing
      <4>4. CASE storage[n].current = stmt.db
        <5>1. \A d \in Clients : chosen[d][n] \in {stmt.db, None}
          BY <1>0, <4>4 DEF StandingIsCurrent, Standing
        <5>2. storage'[n].current = None /\ \A d \in Clients : chosen'[d][n] = None
          BY <4>1, <4>2, <4>4, <5>1
        <5> QED BY <5>2 DEF StandingIsCurrent, Standing
      <4>5. CASE storage[n].current # stmt.db
        <5>1. storage'[n].current = storage[n].current /\ \A d \in Clients : chosen'[d][n] = chosen[d][n]
          BY <4>1, <4>2, <4>3, <4>5
        <5> QED BY <1>0, <5>1 DEF StandingIsCurrent, Standing
      <4> QED BY <4>4, <4>5
    <3>4. CASE ~accepted \/ stmt.op \notin {"use", "drop_database"}
      <4>1. storage'[n].current = storage[n].current
        BY <3>1, <3>4 DEF CurrentAfter
      <4>2. \A d \in Clients : chosen'[d][n] = chosen[d][n]
        BY <2>2, <2>3, <2>5, <3>4 DEF ChosenAfter
      <4> QED BY <1>0, <4>1, <4>2 DEF StandingIsCurrent, Standing
    <3> QED BY <3>2, <3>3, <3>4
  <2> QED BY <2>4, <2>5
<1>3. ASSUME NEW s \in Nodes, Die(s)
      PROVE  StandingIsCurrent(n)'
  <2>1. storage'[n].current = IF n = s THEN None ELSE storage[n].current
    BY <1>0, <1>3 DEF Die, Shapes, Cat!EmptyCatalog
  <2>2. \A d \in Clients : chosen'[d][n] = IF n = s THEN None ELSE chosen[d][n]
    BY <1>0, <1>3 DEF Die, Shapes
  <2> QED BY <1>0, <2>1, <2>2 DEF StandingIsCurrent, Standing
<1> QED BY <1>1, <1>2, <1>3
        DEF EntryRouterNext, RouterThread, StorageThread, Open, Pick, NoStorage, Forward,
            StorageDown, Reply, Relay, RelayNothing, Start, routerVars, storageVars, historyVars

LEMMA InvStep == EntryRouterAssumption /\ RouterInv /\ [EntryRouterNext]_routerVars => RouterInv'
<1> SUFFICES ASSUME EntryRouterAssumption, RouterInv, [EntryRouterNext]_routerVars
             PROVE  RouterInv'
  OBVIOUS
<1>1. size' = size
  BY DEF EntryRouterNext, RouterThread, StorageThread, Open, Pick, NoStorage, Forward, StorageDown,
         Execute, Reply, Relay, RelayNothing, Die, Start, routerVars
<1> QED BY <1>1, ShapesStep, ClientsStep, StandingStep DEF RouterInv, Nodes

LEMMA Invariant == EntryRouterSpec => []RouterInv
<1>1. EntryRouterInit => RouterInv
  BY InvInit, EntryRouterAssumption
<1>2. RouterInv /\ [EntryRouterNext]_routerVars => RouterInv'
  BY InvStep, EntryRouterAssumption
<1> QED BY <1>1, <1>2, PTL DEF EntryRouterSpec

-----------------------------------------------------------------------------
(* The variables keep their types, and every storage a thread picks is one  *)
(* of the list, however the threads' turns at the counter interleave.       *)
THEOREM Typing == EntryRouterSpec => []RouterTypeOK
<1>1. RouterInv => RouterTypeOK
  <2> SUFFICES ASSUME RouterInv PROVE RouterTypeOK
    OBVIOUS
  <2>1. Shapes
    BY DEF RouterInv
  <2>2. ASSUME NEW c \in Clients
        PROVE  /\ conn[c].pc \in Pcs
               /\ conn[c].pc \in {"idle", "read"} \/ conn[c].at \in Nodes
               /\ step[c] \in 1..Len(Script[c]) + 1
               /\ got[c] \in Answers /\ runs[c] \in Nat
               /\ chosen[c] \in [Nodes -> Dbs \cup {None}]
    <3>1. Underway(c) /\ conn[c] \in [pc : Pcs, at : 0..size]
      BY <2>1 DEF RouterInv, Shapes
    <3> QED BY <2>1, <3>1 DEF Shapes, Underway
  <2> QED BY <2>1, <2>2 DEF Shapes, CatOK, RouterTypeOK, Pcs, Answers
<1> QED BY <1>1, Invariant, PTL

(* No statement is executed twice, wherever a storage dies.                 *)
THEOREM ExecutedAtMostOnce == EntryRouterSpec => []AtMostOnce
<1>1. RouterInv => AtMostOnce
  <2> SUFFICES ASSUME RouterInv, NEW c \in Clients PROVE runs[c] <= 1
    BY DEF AtMostOnce
  <2>1. runs[c] \in {0, 1}
    BY DEF RouterInv, Shapes
  <2> QED BY <2>1
<1> QED BY <1>1, Invariant, PTL

(* The router's line tells the client whether its statement was executed,   *)
(* unless the line is empty.                                                *)
THEOREM AnswersAreTrue == EntryRouterSpec => []AnswerTellsTruth
<1>1. RouterInv => AnswerTellsTruth
  BY DEF RouterInv, Counted, AnswerTellsTruth
<1> QED BY <1>1, Invariant, PTL

(* An unqualified statement takes effect in the database of the last USE    *)
(* accepted at the storage it reaches; if none stands there, it is refused. *)
THEOREM UseIsFollowed == EntryRouterSpec => StatementFollowsUse
<1> DEFINE Follows == \A c \in Clients : Execute(c) /\ Unqualified(Script[c][step[c]])
                                           => FollowsUse(conn[c].at, Script[c][step[c]])
<1>1. RouterInv => Follows
  <2> SUFFICES ASSUME RouterInv, NEW c \in Clients, Execute(c), NEW s, s = conn[c].at,
                      NEW stmt, stmt = Script[c][step[c]], Unqualified(stmt)
               PROVE  FollowsUse(s, stmt)
    OBVIOUS
  <2>1. /\ s \in Nodes
        /\ storage' = [storage EXCEPT ![s] = Cat!exec_statement(storage[s], stmt).cat]
    BY DEF Execute, RouterInv, Underway
  <2>2. /\ storage = [n \in Nodes |-> storage[n]]
        /\ CatOK(storage[s]) /\ Standing(s) = {storage[s].current} \ {None} /\ None \notin Dbs
    BY <2>1, EntryRouterAssumption DEF RouterInv, Shapes, StandingIsCurrent, EntryRouterAssumption
  <2>3. Cat!HomeDb(storage[s], stmt) = storage[s].current
    BY <2>2 DEF Cat!HomeDb, Cat!Current, CatOK, Unqualified
  <2>4. CASE storage[s].current = None
    <3>1. Cat!exec_statement(storage[s], stmt).cat = storage[s]
      BY <2>2, <2>3, <2>4 DEF Cat!exec_statement, Cat!Failed, Unqualified, OnDatabases, CatOK
    <3> QED BY <2>1, <2>2, <2>4, <3>1 DEF FollowsUse
  <2>5. CASE storage[s].current # None
    <3> DEFINE d == storage[s].current
    <3>1. Standing(s) = {d} /\ d \in Cat!Created(storage[s])
      BY <2>2, <2>5 DEF CatOK
    <3>2. Cat!exec_statement(storage[s], stmt).cat
            = Cat!SetDb(storage[s], d, Cat!OnTables(storage[s].dbs[d], stmt).tables)
      BY <2>3, <3>1 DEF Cat!exec_statement, Unqualified, OnDatabases
    <3> QED BY <2>1, <3>1, <3>2 DEF FollowsUse
  <2> QED BY <2>4, <2>5
<1>2. RouterInv => [Follows]_routerVars
  BY <1>1
<1> HIDE DEF Follows
<1>3. EntryRouterSpec => [][Follows]_routerVars
  BY <1>2, Invariant, PTL
<1> QED BY <1>3 DEF StatementFollowsUse, Follows

-----------------------------------------------------------------------------
(* Where a search ends: at the first hit, or behind the sequence.           *)
Ends(s, i, stops, j) ==
  /\ j \in i .. Len(s) + 1
  /\ j <= Len(s) => s[j] \in stops
  /\ \A k \in i .. j - 1 : s[k] \notin stops

LEMMA FirstOfEnds ==
  ASSUME NEW S, NEW s \in Seq(S), NEW i \in 1 .. Len(s) + 1, NEW stops
  PROVE  Ends(s, i, stops, FirstOf(s, i, stops))
<1> DEFINE hits == {j \in i .. Len(s) : s[j] \in stops}
<1>1. hits \in SUBSET Nat /\ Len(s) \in Nat
  OBVIOUS
<1>2. FirstOf(s, i, stops) = IF hits = {} THEN Len(s) + 1 ELSE Min(hits)
  BY DEF FirstOf
<1>3. CASE hits = {}
  <2>1. \A k \in i .. Len(s) : s[k] \notin stops
    BY <1>3
  <2> QED BY <1>1, <1>2, <1>3, <2>1 DEF Ends
<1>4. CASE hits # {}
  <2> DEFINE j == Min(hits)
  <2>1. j \in hits /\ \A k \in hits : j <= k
    BY <1>1, <1>4, MinIsLeast
  <2> HIDE DEF j
  <2>2. j \in i .. Len(s) /\ s[j] \in stops
    BY <2>1
  <2>3. ASSUME NEW k \in i .. j - 1 PROVE s[k] \notin stops
    <3>1. k \in i .. Len(s) /\ k < j
      BY <2>2
    <3>2. k \notin hits
      <4> HIDE DEF hits
      <4> QED BY <1>1, <2>1, <2>2, <3>1
    <3> QED BY <3>1, <3>2
  <2> QED BY <1>2, <1>4, <2>2, <2>3 DEF Ends, j
<1> QED BY <1>3, <1>4

LEMMA EndsOnce ==
  ASSUME NEW S, NEW s \in Seq(S), NEW i \in 1 .. Len(s) + 1, NEW stops, NEW j, NEW k,
         Ends(s, i, stops, j), Ends(s, i, stops, k)
  PROVE  j = k
<1>1. j \in Nat /\ k \in Nat /\ Len(s) \in Nat
  BY DEF Ends
<1>2. CASE j < k
  BY <1>1, <1>2 DEF Ends
<1>3. CASE k < j
  BY <1>1, <1>3 DEF Ends
<1> QED BY <1>1, <1>2, <1>3

LEMMA FirstOfOnly ==
  ASSUME NEW S, NEW s \in Seq(S), NEW i \in 1 .. Len(s) + 1, NEW stops, NEW j,
         Ends(s, i, stops, j)
  PROVE  FirstOf(s, i, stops) = j
BY FirstOfEnds, EndsOnce

-----------------------------------------------------------------------------
(* The lexer.                                                               *)
Text == Seq(Characters)
TokenKinds == {"semicolon", "string", "unclosed", "name", "bad"}
Tokens == TokenKinds \X Text

LEMMA CharactersDiffer ==
  /\ Dash \notin White /\ Quote \notin White /\ Letter \notin White /\ Semicolon \notin White
  /\ Bar \notin White /\ Digit \notin White
  /\ Dash \notin {Quote, Letter, Semicolon, Bar} /\ Quote \notin {Letter, Semicolon, Bar}
  /\ Letter \notin {Semicolon, Bar} /\ Semicolon # Bar
  /\ Digit \notin {Dash, Quote, Letter, Semicolon, Bar}
  /\ {Blank, Newline, Dash, Quote, Letter, Semicolon, Bar, Digit} = Characters
  /\ White = {Blank, Newline} /\ Blank # Newline
BY DEF Dash, Quote, Letter, Semicolon, Bar, White, Digit, Blank, Newline, Characters, Typed

(* Where a token ends.                                                      *)
LEMMA CloseIs ==
  ASSUME NEW s \in Text, NEW i \in 1 .. Len(s)
  PROVE  Ends(s, i + 1, {Quote}, Close(s, i))
<1>1. i + 1 \in 1 .. Len(s) + 1
  BY DEF Text
<1> QED BY <1>1, FirstOfEnds DEF Text, Close

LEMMA WordEndIs ==
  ASSUME NEW s \in Text, NEW i \in 1 .. Len(s)
  PROVE  Ends(s, i, Characters \ {Letter}, WordEnd(s, i))
<1>1. i \in 1 .. Len(s) + 1
  BY DEF Text
<1> QED BY <1>1, FirstOfEnds DEF Text, WordEnd

LEMMA LineEndIs ==
  ASSUME NEW s \in Text, NEW i \in 1 .. Len(s)
  PROVE  Ends(s, i, {Newline}, FirstOf(s, i, {Newline}))
<1>1. i \in 1 .. Len(s) + 1
  BY DEF Text
<1> QED BY <1>1, FirstOfEnds DEF Text

LEMMA AfterIs ==
  ASSUME NEW s \in Text, NEW i \in 1 .. Len(s)
  PROVE  /\ After(s, i) \in i + 1 .. Len(s) + 2
         /\ After(s, i) = Len(s) + 2 => s[i] = Quote /\ Close(s, i) > Len(s)
<1>0. Len(s) \in Nat /\ s[i] \in Characters
  BY DEF Text
<1>1. CASE IsComment(s, i)
  <2>1. Ends(s, i, {Newline}, FirstOf(s, i, {Newline}))
    BY LineEndIs
  <2>2. FirstOf(s, i, {Newline}) # i
    BY <1>0, <1>1, <2>1, CharactersDiffer DEF Ends, IsComment
  <2>3. After(s, i) = FirstOf(s, i, {Newline})
    BY <1>1, CharactersDiffer DEF After, IsComment
  <2> QED BY <1>0, <2>1, <2>2, <2>3 DEF Ends
<1>2. CASE s[i] = Quote
  <2>1. Ends(s, i + 1, {Quote}, Close(s, i))
    BY CloseIs
  <2>2. After(s, i) = Close(s, i) + 1
    BY <1>2, CharactersDiffer DEF After, IsComment
  <2> QED BY <1>0, <1>2, <2>1, <2>2 DEF Ends
<1>3. CASE s[i] = Letter
  <2>1. Ends(s, i, Characters \ {Letter}, WordEnd(s, i))
    BY WordEndIs
  <2>2. WordEnd(s, i) # i
    BY <1>0, <1>3, <2>1 DEF Ends
  <2>3. After(s, i) = WordEnd(s, i)
    BY <1>3, CharactersDiffer DEF After, IsComment
  <2> QED BY <1>0, <2>1, <2>2, <2>3 DEF Ends
<1>4. CASE ~ IsComment(s, i) /\ s[i] # Quote /\ s[i] # Letter
  <2>1. After(s, i) = i + 1
    BY <1>4 DEF After
  <2> QED BY <1>0, <2>1
<1> QED BY <1>1, <1>2, <1>3, <1>4

(* A character that begins no token.                                        *)
IsBad(s, i) == s[i] \in {Bar, Digit, Dash} /\ ~ IsComment(s, i)

(* What the lexer does at each character, by cases.                         *)
LEMMA LexAtIs ==
  ASSUME NEW s \in Text, NEW i \in 1 .. Len(s)
  PROVE  /\ s[i] \in White => LexAt(s, i) = <<>> /\ After(s, i) = i + 1
         /\ IsComment(s, i) => LexAt(s, i) = <<>> /\ After(s, i) = FirstOf(s, i, {Newline})
         /\ s[i] = Semicolon => /\ LexAt(s, i) = <<<<"semicolon", <<>>>>>>
                                /\ After(s, i) = i + 1
         /\ s[i] = Quote => /\ LexAt(s, i) = <<<<IF Close(s, i) > Len(s) THEN "unclosed" ELSE "string",
                                                 SubSeq(s, i + 1, Close(s, i) - 1)>>>>
                            /\ After(s, i) = Close(s, i) + 1
         /\ s[i] = Letter => /\ LexAt(s, i) = <<<<"name", SubSeq(s, i, WordEnd(s, i) - 1)>>>>
                             /\ After(s, i) = WordEnd(s, i)
         /\ IsBad(s, i) =>
              LexAt(s, i) = <<<<"bad", <<s[i]>>>>>> /\ After(s, i) = i + 1
<1>1. IsComment(s, i) => s[i] = Dash
  BY DEF IsComment
<1>2. s[i] \in White => LexAt(s, i) = <<>> /\ After(s, i) = i + 1
  BY <1>1, CharactersDiffer DEF LexAt, After, IsBad
<1>3. IsComment(s, i) => LexAt(s, i) = <<>> /\ After(s, i) = FirstOf(s, i, {Newline})
  BY <1>1, CharactersDiffer DEF LexAt, After, IsBad
<1>4. s[i] = Semicolon => LexAt(s, i) = <<<<"semicolon", <<>>>>>> /\ After(s, i) = i + 1
  BY <1>1, CharactersDiffer DEF LexAt, After, IsBad
<1>5. s[i] = Quote => /\ LexAt(s, i) = <<<<IF Close(s, i) > Len(s) THEN "unclosed" ELSE "string",
                                          SubSeq(s, i + 1, Close(s, i) - 1)>>>>
                     /\ After(s, i) = Close(s, i) + 1
  BY <1>1, CharactersDiffer DEF LexAt, After, IsBad
<1>6. s[i] = Letter => /\ LexAt(s, i) = <<<<"name", SubSeq(s, i, WordEnd(s, i) - 1)>>>>
                      /\ After(s, i) = WordEnd(s, i)
  BY <1>1, CharactersDiffer DEF LexAt, After, IsBad
<1>7. IsBad(s, i) =>
        LexAt(s, i) = <<<<"bad", <<s[i]>>>>>> /\ After(s, i) = i + 1
  BY <1>1, CharactersDiffer DEF LexAt, After, IsBad
<1> QED BY <1>2, <1>3, <1>4, <1>5, <1>6, <1>7

LEMMA LexAtType ==
  ASSUME NEW s \in Text, NEW i \in 1 .. Len(s)
  PROVE  LexAt(s, i) \in Seq(Tokens)
<1>0. Len(s) \in Nat /\ s[i] \in Characters /\ <<>> \in Text /\ <<s[i]>> \in Text
  BY DEF Text
<1>1. ASSUME NEW a \in 1 .. Len(s) + 1, NEW b \in Int, b <= Len(s)
      PROVE  SubSeq(s, a, b) \in Text
  <2>1. \A k \in a .. b : s[k] \in Characters
    BY <1>0, <1>1 DEF Text
  <2> QED BY <1>1, <2>1, SubSeqProperties DEF Text
<1>2. ASSUME NEW k \in TokenKinds, NEW t \in Text PROVE <<<<k, t>>>> \in Seq(Tokens)
  BY DEF Tokens
<1>3. s[i] \in White \/ IsComment(s, i) => LexAt(s, i) \in Seq(Tokens)
  <2>1. <<>> \in Seq(Tokens)
    OBVIOUS
  <2>2. s[i] \in White \/ IsComment(s, i) => LexAt(s, i) = <<>>
    BY LexAtIs
  <2> QED BY <2>1, <2>2
<1>4. s[i] = Semicolon => LexAt(s, i) \in Seq(Tokens)
  BY LexAtIs, <1>0, <1>2 DEF TokenKinds
<1>5. s[i] = Quote => LexAt(s, i) \in Seq(Tokens)
  <2>1. Close(s, i) \in Int /\ Close(s, i) - 1 <= Len(s) /\ i + 1 \in 1 .. Len(s) + 1
    BY <1>0, CloseIs DEF Ends
  <2>2. SubSeq(s, i + 1, Close(s, i) - 1) \in Text
    BY <1>1, <2>1
  <2>3. (IF Close(s, i) > Len(s) THEN "unclosed" ELSE "string") \in TokenKinds
    BY DEF TokenKinds
  <2> QED BY LexAtIs, <1>2, <2>2, <2>3
<1>6. s[i] = Letter => LexAt(s, i) \in Seq(Tokens)
  <2>1. WordEnd(s, i) \in Int /\ WordEnd(s, i) - 1 <= Len(s) /\ i \in 1 .. Len(s) + 1
    BY <1>0, WordEndIs DEF Ends
  <2>2. SubSeq(s, i, WordEnd(s, i) - 1) \in Text
    BY <1>1, <2>1
  <2> QED BY LexAtIs, <1>2, <2>2 DEF TokenKinds
<1>7. IsBad(s, i) => LexAt(s, i) \in Seq(Tokens)
  BY LexAtIs, <1>0, <1>2 DEF TokenKinds
<1> QED BY <1>0, <1>3, <1>4, <1>5, <1>6, <1>7, CharactersDiffer DEF IsBad

(* At most one token is taken at a position.                                *)
LEMMA LexAtOne ==
  ASSUME NEW s \in Text, NEW i \in 1 .. Len(s)
  PROVE  LexAt(s, i) = <<>> \/ \E t \in Tokens : LexAt(s, i) = <<t>>
<1>1. LexAt(s, i) \in Seq(Tokens) /\ s[i] \in Characters
  BY LexAtType DEF Text
<1>2. LexAt(s, i) = <<>> \/ \E t : LexAt(s, i) = <<t>>
  BY <1>1, LexAtIs, CharactersDiffer DEF IsBad
<1>3. ASSUME NEW t, LexAt(s, i) = <<t>> PROVE t \in Tokens
  <2>1. <<t>> \in Seq(Tokens) /\ <<t>>[1] = t /\ 1 \in 1 .. Len(<<t>>)
    BY <1>1, <1>3
  <2> QED BY <2>1, ElementOfSeq
<1> QED BY <1>2, <1>3

LEMMA LexJumps ==
  ASSUME NEW s \in Text
  PROVE  /\ \A i \in 1 .. Len(s) : LexFrom(s)[i] = LexAt(s, i) \o LexFrom(s)[After(s, i)]
         /\ LexFrom(s)[Len(s) + 1] = <<>> /\ LexFrom(s)[Len(s) + 2] = <<>>
<1> DEFINE n == Len(s)
           D == 1 .. n + 2
           tok == [i \in 1 .. n |-> LexAt(s, i)]
           next == [i \in 1 .. n |-> After(s, i)]
           Fits(f) == f = [i \in 1 .. Len(s) + 2 |->
                             IF i > Len(s) THEN <<>> ELSE LexAt(s, i) \o f[After(s, i)]]
           F == CHOOSE f : Fits(f)
<1>1. n \in Nat /\ \A i \in 1 .. n : next[i] \in i + 1 .. n + 2
  BY AfterIs DEF Text
<1>2. PICK f : Jumps(f, n, tok, next)
  <2> HIDE DEF n, tok, next
  <2> QED BY <1>1, JumpsExist
<1>3. Fits(f)
  <2>1. \A i \in D : ~ (i > n) => tok[i] = LexAt(s, i) /\ next[i] = After(s, i)
    <3>1. \A i \in D : ~ (i > n) => i \in 1 .. n
      BY <1>1
    <3> HIDE DEF D, n
    <3> QED BY <3>1
  <2>2. [i \in D |-> IF i > n THEN <<>> ELSE tok[i] \o f[next[i]]]
          = [i \in D |-> IF i > n THEN <<>> ELSE LexAt(s, i) \o f[After(s, i)]]
    <3> HIDE DEF D, tok, next, n
    <3> QED BY <2>1
  <2>3. f = [i \in D |-> IF i > n THEN <<>> ELSE tok[i] \o f[next[i]]]
    <3> HIDE DEF n, tok, next
    <3> QED BY <1>2 DEF Jumps
  <2> QED BY <2>2, <2>3
<1>4. LexFrom(s) = F
  BY DEF LexFrom
<1>5. Fits(F)
  <2> HIDE DEF Fits
  <2> QED BY <1>3
<1>6. \A i \in D : F[i] = IF i > n THEN <<>> ELSE LexAt(s, i) \o F[After(s, i)]
  <2> HIDE DEF F
  <2> QED BY <1>5
<1>7. ASSUME NEW i \in 1 .. n PROVE i \in D /\ ~ (i > n)
  BY <1>1
<1>8. n + 1 \in D /\ n + 1 > n /\ n + 2 \in D /\ n + 2 > n
  BY <1>1
<1> HIDE DEF F, D
<1> QED BY <1>4, <1>6, <1>7, <1>8

LEMMA LexType ==
  ASSUME NEW s \in Text, NEW i \in 1 .. Len(s) + 2
  PROVE  LexFrom(s)[i] \in Seq(Tokens)
<1> DEFINE n == Len(s)
           S == {k \in 1 .. n + 2 : LexFrom(s)[k] \in Seq(Tokens)}
<1>1. n \in Nat /\ n + 1 \in 1 .. n + 2 /\ n + 2 \in 1 .. n + 2 /\ <<>> \in Seq(Tokens)
  BY DEF Text
<1>2. n + 1 \in S /\ n + 2 \in S
  BY <1>1, LexJumps
<1>3. ASSUME NEW k \in 1 .. n, k + 1 .. n + 2 \subseteq S PROVE k \in S
  <2>1. After(s, k) \in S
    BY <1>3, AfterIs
  <2>2. LexAt(s, k) \in Seq(Tokens) /\ LexFrom(s)[After(s, k)] \in Seq(Tokens)
    BY <2>1, LexAtType
  <2>3. LexAt(s, k) \o LexFrom(s)[After(s, k)] \in Seq(Tokens)
    BY <2>2, ConcatProperties
  <2>4. k \in 1 .. n + 2
    BY <1>1
  <2> QED BY <2>3, <2>4, LexJumps
<1>4. 1 .. n + 2 \subseteq S
  <2> HIDE DEF n, S
  <2> QED BY <1>1, <1>2, <1>3, FromTheEnd
<1> QED BY <1>4

-----------------------------------------------------------------------------
(* What the parser gets to see of one token more.                           *)
Stops == {"semicolon", "bad"}

LEMMA KindsType ==
  ASSUME NEW x \in Seq(Tokens)
  PROVE  Kinds(x) \in Seq(TokenKinds) /\ Len(Kinds(x)) = Len(x)
<1>1. Kinds(x) = [i \in 1 .. Len(x) |-> x[i][1]] /\ Len(x) \in Nat
  BY DEF Kinds
<1>2. \A i \in 1 .. Len(x) : x[i][1] \in TokenKinds
  BY DEF Tokens
<1>3. Kinds(x) \in [1 .. Len(x) -> TokenKinds]
  <2> HIDE DEF TokenKinds, Tokens
  <2> QED BY <1>1, <1>2
<1> QED BY <1>1, <1>3

LEMMA SeenIs ==
  ASSUME NEW x \in Seq(Tokens), NEW e, Ends(Kinds(x), 1, Stops, e)
  PROVE  Seen(x) = SubSeq(x, 1, e - 1)
<1>1. 1 \in 1 .. Len(Kinds(x)) + 1
  BY KindsType
<1>2. FirstOf(Kinds(x), 1, Stops) = e
  BY <1>1, KindsType, FirstOfOnly
<1> QED BY <1>2 DEF Seen, Stops

LEMMA SeenEnds ==
  ASSUME NEW x \in Seq(Tokens)
  PROVE  \E e \in 1 .. Len(x) + 1 : Ends(Kinds(x), 1, Stops, e) /\ Seen(x) = SubSeq(x, 1, e - 1)
<1>1. 1 \in 1 .. Len(Kinds(x)) + 1
  BY KindsType
<1>2. Ends(Kinds(x), 1, Stops, FirstOf(Kinds(x), 1, Stops))
  BY <1>1, KindsType, FirstOfEnds
<1> QED BY <1>2, SeenIs, KindsType DEF Ends

LEMMA SeenType ==
  ASSUME NEW x \in Seq(Tokens)
  PROVE  Seen(x) \in Seq(Tokens)
<1>1. PICK e \in 1 .. Len(x) + 1 : Seen(x) = SubSeq(x, 1, e - 1)
  BY SeenEnds
<1>2. \A k \in 1 .. e - 1 : x[k] \in Tokens
  OBVIOUS
<1> QED BY <1>1, <1>2, SubSeqProperties

LEMMA SeenNothing == Seen(<<>>) = <<>>
<1>1. PICK e \in 1 .. Len(<<>>) + 1 : Seen(<<>>) = SubSeq(<<>>, 1, e - 1)
  <2>1. <<>> \in Seq(Tokens)
    OBVIOUS
  <2> QED BY <2>1, SeenEnds
<1>2. e - 1 < 1 /\ e - 1 \in Int
  OBVIOUS
<1> QED BY <1>1, <1>2, SubSeqEmpty

LEMMA SeenStops ==
  ASSUME NEW t \in Tokens, NEW x \in Seq(Tokens), t[1] \in Stops
  PROVE  Seen(<<t>> \o x) = <<>>
<1> DEFINE y == <<t>> \o x
<1>1. y \in Seq(Tokens) /\ Len(y) \in Nat /\ Len(y) >= 1 /\ y[1] = t
  OBVIOUS
<1> HIDE DEF y
<1>2. Kinds(y)[1] = t[1] /\ Len(Kinds(y)) = Len(y)
  BY <1>1, KindsType DEF Kinds
<1>3. Ends(Kinds(y), 1, Stops, 1)
  BY <1>1, <1>2 DEF Ends
<1>4. Seen(y) = SubSeq(y, 1, 1 - 1)
  BY <1>1, <1>3, SeenIs
<1>5. SubSeq(y, 1, 1 - 1) = <<>>
  BY SubSeqEmpty
<1> QED BY <1>4, <1>5 DEF y

LEMMA SeenGoesOn ==
  ASSUME NEW t \in Tokens, NEW x \in Seq(Tokens), t[1] \notin Stops
  PROVE  Seen(<<t>> \o x) = <<t>> \o Seen(x)
<1> DEFINE y == <<t>> \o x
<1>1. y \in Seq(Tokens) /\ Len(x) \in Nat /\ Len(y) = Len(x) + 1 /\ y[1] = t
  OBVIOUS
<1>2. \A k \in 1 .. Len(x) : y[k + 1] = x[k]
  OBVIOUS
<1> HIDE DEF y
<1>3. PICK e \in 1 .. Len(x) + 1 : Ends(Kinds(x), 1, Stops, e) /\ Seen(x) = SubSeq(x, 1, e - 1)
  BY SeenEnds
<1>4. Kinds(y)[1] = t[1] /\ Len(Kinds(y)) = Len(x) + 1 /\ Len(Kinds(x)) = Len(x)
  BY <1>1, KindsType DEF Kinds
<1>5. \A k \in 1 .. Len(x) : Kinds(y)[k + 1] = Kinds(x)[k]
  BY <1>1, <1>2 DEF Kinds
<1>6. Ends(Kinds(y), 1, Stops, e + 1)
  <2>1. e + 1 \in 1 .. Len(Kinds(y)) + 1
    BY <1>1, <1>3, <1>4
  <2>2. e + 1 <= Len(Kinds(y)) => Kinds(y)[e + 1] \in Stops
    BY <1>1, <1>3, <1>4, <1>5 DEF Ends
  <2>3. ASSUME NEW k \in 1 .. (e + 1) - 1 PROVE Kinds(y)[k] \notin Stops
    <3>1. CASE k = 1
      BY <1>4, <3>1
    <3>2. CASE k # 1
      <4>1. k - 1 \in 1 .. Len(x) /\ k - 1 \in 1 .. e - 1 /\ (k - 1) + 1 = k
        BY <1>1, <3>2
      <4>2. Kinds(y)[k] = Kinds(x)[k - 1]
        BY <1>5, <4>1
      <4> QED BY <1>3, <4>1, <4>2 DEF Ends
    <3> QED BY <3>1, <3>2
  <2> QED BY <2>1, <2>2, <2>3 DEF Ends
<1>7. Seen(y) = SubSeq(y, 1, e)
  <2>1. Seen(y) = SubSeq(y, 1, (e + 1) - 1)
    BY <1>1, <1>6, SeenIs
  <2> QED BY <2>1
<1>8. SubSeq(y, 1, e) = <<t>> \o SubSeq(x, 1, e - 1)
  <2> DEFINE z == SubSeq(x, 1, e - 1)
             l == SubSeq(y, 1, e)
  <2>1. z \in Seq(Tokens) /\ Len(z) = e - 1 /\ \A k \in 1 .. e - 1 : z[k] = x[k]
    <3>1. \A k \in 1 .. e - 1 : x[k] \in Tokens
      BY <1>1
    <3> QED BY <3>1, SubSeqProperties
  <2>2. l \in Seq(Tokens) /\ Len(l) = e /\ \A k \in 1 .. e : l[k] = y[k]
    <3>1. \A k \in 1 .. e : y[k] \in Tokens
      BY <1>1
    <3> QED BY <3>1, SubSeqProperties
  <2> HIDE DEF z, l
  <2> DEFINE r == <<t>> \o z
  <2>3. r \in Seq(Tokens) /\ Len(r) = e /\ r[1] = t /\ \A k \in 1 .. e - 1 : r[k + 1] = z[k]
    BY <2>1
  <2> HIDE DEF r
  <2>4. ASSUME NEW k \in 1 .. e PROVE l[k] = r[k]
    <3>1. CASE k = 1
      BY <1>1, <2>2, <2>3, <3>1
    <3>2. CASE k # 1
      <4>1. k - 1 \in 1 .. e - 1 /\ k - 1 \in 1 .. Len(x) /\ (k - 1) + 1 = k
        BY <1>1, <3>2
      <4>2. r[k] = x[k - 1]
        BY <2>1, <2>3, <4>1
      <4>3. l[k] = x[k - 1]
        BY <1>2, <2>2, <4>1
      <4> QED BY <4>2, <4>3
    <3> QED BY <3>1, <3>2
  <2>5. l = r
    BY <2>2, <2>3, <2>4, SeqEqual
  <2> QED BY <2>5 DEF l, r, z
<1> QED BY <1>3, <1>7, <1>8 DEF y

-----------------------------------------------------------------------------
(* Tokens of one text and of another that differs from it in blanks.        *)
BlankedToken(t, old) == <<t[1], Replaced(t[2], old, Blank)>>

LEMMA ReplacedType ==
  ASSUME NEW s \in Text, NEW old
  PROVE  /\ Replaced(s, old, Blank) \in Text /\ Len(Replaced(s, old, Blank)) = Len(s)
         /\ \A i \in 1 .. Len(s) :
              Replaced(s, old, Blank)[i] = IF s[i] \in old THEN Blank ELSE s[i]
<1>1. Replaced(s, old, Blank) = [i \in 1 .. Len(s) |-> IF s[i] \in old THEN Blank ELSE s[i]]
  BY DEF Replaced, Text
<1>2. \A i \in 1 .. Len(s) : (IF s[i] \in old THEN Blank ELSE s[i]) \in Characters
  BY CharactersDiffer DEF Text
<1>3. Replaced(s, old, Blank) \in [1 .. Len(s) -> Characters] /\ Len(s) \in Nat
  BY <1>1, <1>2 DEF Text
<1> QED BY <1>1, <1>3 DEF Text

LEMMA BlankedTokenType ==
  ASSUME NEW t \in Tokens, NEW old
  PROVE  BlankedToken(t, old) \in Tokens /\ BlankedToken(t, old)[1] = t[1]
<1>1. t[1] \in TokenKinds /\ t[2] \in Text
  BY DEF Tokens
<1>2. Replaced(t[2], old, Blank) \in Text
  BY <1>1, ReplacedType
<1> QED BY <1>1, <1>2 DEF BlankedToken, Tokens

LEMMA BlankedIs ==
  ASSUME NEW x \in Seq(Tokens), NEW old
  PROVE  /\ Blanked(x, old) \in Seq(Tokens) /\ Len(Blanked(x, old)) = Len(x)
         /\ \A i \in 1 .. Len(x) : Blanked(x, old)[i] = BlankedToken(x[i], old)
<1>1. Blanked(x, old) = [i \in 1 .. Len(x) |-> BlankedToken(x[i], old)] /\ Len(x) \in Nat
  BY DEF Blanked, BlankedToken
<1>2. \A i \in 1 .. Len(x) : BlankedToken(x[i], old) \in Tokens
  BY BlankedTokenType
<1>3. Blanked(x, old) \in [1 .. Len(x) -> Tokens]
  BY <1>1, <1>2
<1> QED BY <1>1, <1>3

LEMMA BlankedNothing ==
  ASSUME NEW old
  PROVE  Blanked(<<>>, old) = <<>>
<1>1. <<>> \in Seq(Tokens) /\ Len(<<>>) = 0
  OBVIOUS
<1> QED BY <1>1, BlankedIs, EmptySeq

LEMMA BlankedOne ==
  ASSUME NEW t \in Tokens, NEW old
  PROVE  Blanked(<<t>>, old) = <<BlankedToken(t, old)>>
<1> DEFINE x == <<t>>
           b == BlankedToken(t, old)
           l == Blanked(x, old)
<1>1. x \in Seq(Tokens) /\ Len(x) = 1 /\ x[1] = t
  OBVIOUS
<1> HIDE DEF x
<1>2. l \in Seq(Tokens) /\ Len(l) = 1 /\ l[1] = b
  BY <1>1, BlankedIs
<1> HIDE DEF b, l
<1>3. l = <<b>>
  BY <1>2
<1> QED BY <1>3 DEF b, l, x

LEMMA BlankedConcat ==
  ASSUME NEW x \in Seq(Tokens), NEW y \in Seq(Tokens), NEW old
  PROVE  Blanked(x \o y, old) = Blanked(x, old) \o Blanked(y, old)
<1> DEFINE z == x \o y
           l == Blanked(z, old)
           a == Blanked(x, old)
           b == Blanked(y, old)
           r == a \o b
<1>1. /\ z \in Seq(Tokens) /\ Len(z) = Len(x) + Len(y) /\ Len(x) \in Nat /\ Len(y) \in Nat
      /\ \A i \in 1 .. Len(x) + Len(y) : z[i] = IF i <= Len(x) THEN x[i] ELSE y[i - Len(x)]
  BY ConcatProperties
<1> HIDE DEF z
<1>2. l \in Seq(Tokens) /\ Len(l) = Len(z) /\ \A i \in 1 .. Len(z) : l[i] = BlankedToken(z[i], old)
  BY <1>1, BlankedIs
<1>3. /\ a \in Seq(Tokens) /\ Len(a) = Len(x) /\ \A i \in 1 .. Len(x) : a[i] = BlankedToken(x[i], old)
      /\ b \in Seq(Tokens) /\ Len(b) = Len(y) /\ \A i \in 1 .. Len(y) : b[i] = BlankedToken(y[i], old)
  BY BlankedIs
<1> HIDE DEF l, a, b
<1>4. /\ r \in Seq(Tokens) /\ Len(r) = Len(x) + Len(y)
      /\ \A i \in 1 .. Len(x) + Len(y) : r[i] = IF i <= Len(x) THEN a[i] ELSE b[i - Len(x)]
  <2>1. a \in Seq(Tokens) /\ b \in Seq(Tokens) /\ Len(a) = Len(x) /\ Len(b) = Len(y)
    BY <1>3
  <2>2. /\ a \o b \in Seq(Tokens) /\ Len(a \o b) = Len(a) + Len(b)
        /\ \A i \in 1 .. Len(a) + Len(b) : (a \o b)[i] = IF i <= Len(a) THEN a[i] ELSE b[i - Len(a)]
    BY ONLY <2>1, ConcatProperties
  <2> QED BY <2>1, <2>2
<1> HIDE DEF r
<1>5. ASSUME NEW i \in 1 .. Len(l) PROVE l[i] = r[i]
  <2>1. i \in 1 .. Len(x) + Len(y)
    BY <1>1, <1>2
  <2>2. CASE i <= Len(x)
    <3>1. i \in 1 .. Len(x)
      BY <1>1, <2>1, <2>2
    <3> QED BY <1>1, <1>2, <1>3, <1>4, <2>1, <2>2, <3>1
  <2>3. CASE ~ (i <= Len(x))
    <3>1. i - Len(x) \in 1 .. Len(y)
      BY <1>1, <2>1, <2>3
    <3> QED BY <1>1, <1>2, <1>3, <1>4, <2>1, <2>3, <3>1
  <2> QED BY <2>2, <2>3
<1>6. l = r
  BY <1>1, <1>2, <1>4, <1>5, SeqEqual
<1> QED BY <1>6 DEF z, l, a, b, r

(* A text of which only white space and semicolons are left.                *)
Trail == {Blank, Newline, Semicolon}

LEMMA TrailUnseen ==
  ASSUME NEW s \in Text, NEW i \in 1 .. Len(s) + 2, \A k \in i .. Len(s) : s[k] \in Trail
  PROVE  Seen(LexFrom(s)[i]) = <<>>
<1> DEFINE n == Len(s)
           S == {j \in 1 .. n + 2 : j >= i => Seen(LexFrom(s)[j]) = <<>>}
<1>1. n \in Nat /\ n + 1 \in 1 .. n + 2 /\ n + 2 \in 1 .. n + 2
  BY DEF Text
<1>2. n + 1 \in S /\ n + 2 \in S
  BY <1>1, LexJumps, SeenNothing
<1>3. ASSUME NEW j \in 1 .. n, j + 1 .. n + 2 \subseteq S PROVE j \in S
  <2>0. j \in 1 .. n + 2
    BY <1>1
  <2> SUFFICES ASSUME j >= i PROVE Seen(LexFrom(s)[j]) = <<>>
    BY <2>0
  <2>1. s[j] \in Trail /\ LexFrom(s)[j] = LexAt(s, j) \o LexFrom(s)[After(s, j)]
    BY <1>1, LexJumps
  <2>2. After(s, j) \in 1 .. n + 2 /\ After(s, j) >= i /\ After(s, j) \in j + 1 .. n + 2
    BY <1>1, AfterIs
  <2>3. LexFrom(s)[After(s, j)] \in Seq(Tokens) /\ Seen(LexFrom(s)[After(s, j)]) = <<>>
    BY <1>3, <2>2, LexType
  <2> HIDE DEF n, S
  <2>4. CASE s[j] \in White
    <3>1. LexAt(s, j) = <<>>
      BY <2>4, LexAtIs DEF n
    <3>2. <<>> \o LexFrom(s)[After(s, j)] = LexFrom(s)[After(s, j)]
      BY <2>3, ConcatEmptySeq
    <3> QED BY <2>1, <2>3, <3>1, <3>2
  <2>5. CASE s[j] = Semicolon
    <3> DEFINE t == <<"semicolon", <<>>>>
    <3>1. LexAt(s, j) = <<t>>
      BY <2>5, LexAtIs DEF n
    <3>2. t \in Tokens /\ t[1] \in Stops
      <4>1. <<>> \in Text
        BY DEF Text
      <4>2. "semicolon" \in TokenKinds /\ "semicolon" \in Stops
        BY DEF TokenKinds, Stops
      <4> QED BY ONLY <4>1, <4>2 DEF Tokens
    <3> HIDE DEF t
    <3> QED BY <2>1, <2>3, <3>1, <3>2, SeenStops
  <2> QED BY <2>1, <2>4, <2>5, CharactersDiffer DEF Trail
<1>4. 1 .. n + 2 \subseteq S
  <2> HIDE DEF n, S
  <2> QED BY <1>1, <1>2, <1>3, FromTheEnd
<1>5. i \in S
  BY <1>4
<1>6. i >= i
  BY <1>1
<1> QED BY <1>5, <1>6

(* From a to m the text s is, moved by d, the text u but for blanks in u;   *)
(* where it ends, no name goes on and no comment begins in either.          *)
Edge == Trail \cup {Quote}
Matches(s, u, d, a, m, old) ==
  /\ d \in Int /\ m \in 0 .. Len(s) /\ m + d \in 0 .. Len(u)
  /\ a \in 1 .. m + 1 /\ a + d >= 1
  /\ old \in SUBSET {Newline, Bar}
  /\ \A i \in a .. m : u[i + d] = IF s[i] \in old THEN Blank ELSE s[i]
  /\ m < Len(s) => s[m + 1] \in Edge
  /\ m + d < Len(u) => u[m + d + 1] \in Edge

LEMMA Placed ==
  ASSUME NEW s \in Text, NEW u \in Text, NEW d, NEW a, NEW m, NEW old,
         Matches(s, u, d, a, m, old)
  PROVE  /\ Len(s) \in Nat /\ Len(u) \in Nat /\ d \in Int /\ m \in Nat /\ m <= Len(s) /\ m + d <= Len(u)
         /\ a \in Nat /\ a >= 1 /\ a <= m + 1 /\ a + d >= 1
         /\ \A i \in a .. m : i \in 1 .. Len(s) /\ i + d \in 1 .. Len(u)
BY DEF Matches, Text

LEMMA SameCharacter ==
  ASSUME NEW s \in Text, NEW u \in Text, NEW d, NEW a, NEW m, NEW old,
         Matches(s, u, d, a, m, old), NEW i \in a .. m
  PROVE  /\ \A c \in {Quote, Semicolon, Dash, Letter, Digit} : s[i] = c <=> u[i + d] = c
         /\ s[i] \in White => u[i + d] \in White
         /\ s[i] = Bar /\ Bar \notin old => u[i + d] = Bar
         /\ u[i + d] = IF s[i] \in old THEN Blank ELSE s[i]
         /\ i \in 1 .. Len(s) /\ i + d \in 1 .. Len(u)
<1>1. u[i + d] = IF s[i] \in old THEN Blank ELSE s[i]
  BY DEF Matches
<1>2. old \in SUBSET {Newline, Bar}
  BY DEF Matches
<1>3. i \in 1 .. Len(s) /\ i + d \in 1 .. Len(u)
  BY Placed
<1>4. \A c \in {Quote, Semicolon, Dash, Letter, Digit} : s[i] = c <=> u[i + d] = c
  BY ONLY <1>1, <1>2, CharactersDiffer
<1> QED BY <1>1, <1>2, <1>3, <1>4, CharactersDiffer

LEMMA SameClose ==
  ASSUME NEW s \in Text, NEW u \in Text, NEW d, NEW a, NEW m, NEW old,
         Matches(s, u, d, a, m, old), NEW i \in a .. m, Close(s, i) <= m
  PROVE  Close(s, i) \in i + 1 .. m /\ Close(u, i + d) = Close(s, i) + d
<1> DEFINE c == Close(s, i)
<1>0. /\ Len(s) \in Nat /\ Len(u) \in Nat /\ d \in Int /\ m \in Nat /\ m <= Len(s) /\ m + d <= Len(u)
      /\ a \in Nat /\ a >= 1 /\ a <= m + 1 /\ a + d >= 1
      /\ i \in 1 .. Len(s) /\ i + d \in 1 .. Len(u)
  BY Placed
<1>1. Ends(s, i + 1, {Quote}, c)
  BY <1>0, CloseIs
<1> HIDE DEF c
<1>2. c \in i + 1 .. Len(s) + 1 /\ c <= m /\ s[c] = Quote
  BY <1>0, <1>1 DEF Ends, c
<1>4. c \in i + 1 .. m /\ c \in a .. m
  BY <1>0, <1>2
<1>5. u[c + d] = Quote
  BY <1>2, <1>4, SameCharacter
<1>6. ASSUME NEW k \in (i + d) + 1 .. (c + d) - 1 PROVE u[k] # Quote
  <2>1. k - d \in a .. m /\ k - d \in i + 1 .. c - 1 /\ (k - d) + d = k
    BY <1>0, <1>4
  <2>2. s[k - d] # Quote
    BY <1>1, <2>1 DEF Ends
  <2> DEFINE j == k - d
  <2>3. j \in a .. m /\ s[j] # Quote /\ j + d = k
    BY <2>1, <2>2
  <2> HIDE DEF j
  <2> QED BY <2>3, SameCharacter
<1>7. Ends(u, (i + d) + 1, {Quote}, c + d)
  <2>1. c + d \in (i + d) + 1 .. Len(u) + 1
    BY <1>0, <1>4
  <2> QED BY <1>5, <1>6, <2>1 DEF Ends
<1>8. Ends(u, (i + d) + 1, {Quote}, Close(u, i + d))
  BY <1>0, CloseIs
<1>9. (i + d) + 1 \in 1 .. Len(u) + 1
  BY <1>0
<1>10. Close(u, i + d) = c + d
  BY <1>7, <1>8, <1>9, EndsOnce DEF Text
<1> QED BY <1>4, <1>10 DEF c

LEMMA SameWord ==
  ASSUME NEW s \in Text, NEW u \in Text, NEW d, NEW a, NEW m, NEW old,
         Matches(s, u, d, a, m, old), NEW i \in a .. m, s[i] = Letter
  PROVE  WordEnd(s, i) \in i + 1 .. m + 1 /\ WordEnd(u, i + d) = WordEnd(s, i) + d
<1> DEFINE c == WordEnd(s, i)
           others == Characters \ {Letter}
<1>0. /\ Len(s) \in Nat /\ Len(u) \in Nat /\ d \in Int /\ m \in Nat /\ m <= Len(s) /\ m + d <= Len(u)
      /\ a \in Nat /\ a >= 1 /\ a <= m + 1 /\ a + d >= 1
      /\ i \in 1 .. Len(s) /\ i + d \in 1 .. Len(u)
  BY Placed
<1>1. Ends(s, i, others, c)
  BY <1>0, WordEndIs
<1> HIDE DEF c
<1>2. c \in i .. Len(s) + 1 /\ (c <= Len(s) => s[c] \in others)
  BY <1>1 DEF Ends
<1>3. c # i
  BY <1>0, <1>2
<1>4. c <= m + 1
  <2> SUFFICES ASSUME ~ (c <= m + 1) PROVE FALSE
    BY <1>0, <1>2
  <2>1. m + 1 \in i .. c - 1 /\ m < Len(s) /\ m + 1 \in 1 .. Len(s)
    BY <1>0, <1>2
  <2>2. s[m + 1] \in Edge /\ s[m + 1] \notin others /\ s[m + 1] \in Characters
    BY <1>1, <2>1 DEF Matches, Ends, Text
  <2> QED BY <2>2, CharactersDiffer DEF Edge, Trail
<1>5. c \in i + 1 .. m + 1
  BY <1>0, <1>2, <1>3, <1>4
<1>6. ASSUME c + d <= Len(u) PROVE u[c + d] \in others
  <2>1. c + d \in 1 .. Len(u)
    BY <1>0, <1>5, <1>6
  <2>2. u[c + d] \in Characters
    BY <2>1 DEF Text
  <2>3. CASE c <= m
    <3>1. c \in a .. m /\ s[c] # Letter
      BY <1>0, <1>2, <1>5, <2>3
    <3>2. u[c + d] # Letter
      BY <3>1, SameCharacter
    <3> QED BY <2>2, <3>2
  <2>4. CASE c = m + 1
    <3>1. m + d < Len(u) /\ c + d = m + d + 1
      BY <1>0, <1>6, <2>4
    <3>2. u[c + d] \in Edge
      BY <3>1 DEF Matches
    <3> QED BY <2>2, <3>2, CharactersDiffer DEF Edge, Trail
  <2> QED BY <1>0, <1>5, <2>3, <2>4
<1>7. ASSUME NEW k \in i + d .. (c + d) - 1 PROVE u[k] \notin others
  <2>1. k - d \in a .. m /\ k - d \in i .. c - 1 /\ (k - d) + d = k /\ k - d \in 1 .. Len(s)
    BY <1>0, <1>5
  <2>2. s[k - d] \notin others /\ s[k - d] \in Characters
    BY <1>1, <2>1 DEF Ends, Text
  <2> DEFINE j == k - d
  <2>3. j \in a .. m /\ s[j] = Letter /\ j + d = k
    BY <2>1, <2>2
  <2> HIDE DEF j
  <2>4. u[k] = Letter
    BY <2>3, SameCharacter
  <2> QED BY <2>4
<1>8. Ends(u, i + d, others, c + d)
  <2>1. c + d \in i + d .. Len(u) + 1
    BY <1>0, <1>5
  <2> HIDE DEF others
  <2> QED BY <1>6, <1>7, <2>1 DEF Ends
<1>9. Ends(u, i + d, others, WordEnd(u, i + d))
  BY <1>0, WordEndIs
<1>10. i + d \in 1 .. Len(u) + 1
  BY <1>0
<1>11. WordEnd(u, i + d) = c + d
  <2> HIDE DEF others
  <2> QED BY <1>8, <1>9, <1>10, EndsOnce DEF Text
<1> QED BY <1>5, <1>11 DEF c

LEMMA SameStretch ==
  ASSUME NEW s \in Text, NEW u \in Text, NEW d, NEW a, NEW m, NEW old,
         Matches(s, u, d, a, m, old), NEW p \in a .. m + 1, NEW q \in p - 1 .. m
  PROVE  /\ SubSeq(u, p + d, q + d) = Replaced(SubSeq(s, p, q), old, Blank)
         /\ SubSeq(s, p, q) \in Text
<1> DEFINE x == SubSeq(s, p, q)
           l == SubSeq(u, p + d, q + d)
           r == Replaced(x, old, Blank)
           n == q - p + 1
<1>0. /\ Len(s) \in Nat /\ Len(u) \in Nat /\ d \in Int /\ m \in Nat /\ m <= Len(s) /\ m + d <= Len(u)
      /\ a \in Nat /\ a >= 1 /\ a <= m + 1 /\ a + d >= 1
  BY Placed
<1>1. x \in Text /\ Len(x) = n /\ \A k \in 1 .. n : x[k] = s[p + k - 1]
  <2>1. \A k \in p .. q : s[k] \in Characters
    BY <1>0 DEF Text
  <2>2. p \in Int /\ q \in Int /\ (IF p <= q THEN q - p + 1 ELSE 0) = n
    BY <1>0
  <2> QED BY <2>1, <2>2, SubSeqProperties DEF Text
<1>2. l \in Text /\ Len(l) = n /\ \A k \in 1 .. n : l[k] = u[(p + d) + k - 1]
  <2>1. \A k \in p + d .. q + d : u[k] \in Characters
    BY <1>0 DEF Text
  <2>2. p + d \in Int /\ q + d \in Int
        /\ (IF p + d <= q + d THEN (q + d) - (p + d) + 1 ELSE 0) = n /\ (q + d) - (p + d) + 1 = n
    BY <1>0
  <2> DEFINE v == p + d
             w == q + d
  <2> HIDE DEF v, w
  <2>3. /\ SubSeq(u, v, w) \in Seq(Characters)
        /\ Len(SubSeq(u, v, w)) = IF v <= w THEN w - v + 1 ELSE 0
        /\ \A k \in 1 .. w - v + 1 : SubSeq(u, v, w)[k] = u[v + k - 1]
    BY <2>1, <2>2, SubSeqProperties DEF v, w
  <2> QED BY <2>2, <2>3 DEF v, w, Text
<1> HIDE DEF x, l
<1>3. r \in Text /\ Len(r) = n /\ \A k \in 1 .. n : r[k] = IF x[k] \in old THEN Blank ELSE x[k]
  BY <1>1, ReplacedType
<1> HIDE DEF r
<1>4. ASSUME NEW k \in 1 .. n PROVE l[k] = r[k]
  <2> DEFINE j == p + k - 1
  <2>1. j \in a .. m /\ (p + d) + k - 1 = j + d
    BY <1>0
  <2>2. x[k] = s[j] /\ l[k] = u[j + d]
    BY <1>1, <1>2, <2>1
  <2> HIDE DEF j
  <2>3. u[j + d] = IF s[j] \in old THEN Blank ELSE s[j]
    BY <2>1, SameCharacter
  <2> QED BY <1>3, <2>2, <2>3
<1>5. l = r
  <2> HIDE DEF n
  <2> QED BY <1>2, <1>3, <1>4, SeqEqual DEF Text
<1> QED BY <1>1, <1>5 DEF l, r, x

LEMMA SameToken ==
  ASSUME NEW s \in Text, NEW u \in Text, NEW d, NEW a, NEW m, NEW old,
         Matches(s, u, d, a, m, old), NEW i \in a .. m,
         ~ IsComment(s, i), s[i] = Quote => Close(s, i) <= m, s[i] = Bar => Bar \notin old
  PROVE  /\ LexAt(u, i + d) = Blanked(LexAt(s, i), old)
         /\ After(u, i + d) = After(s, i) + d
         /\ After(s, i) \in i + 1 .. m + 1
<1> DEFINE j == i + d
<1>0. /\ Len(s) \in Nat /\ Len(u) \in Nat /\ d \in Int /\ m \in Nat /\ m <= Len(s) /\ m + d <= Len(u)
      /\ a \in Nat /\ a >= 1 /\ a <= m + 1 /\ a + d >= 1
      /\ i \in 1 .. Len(s) /\ j \in 1 .. Len(u)
  BY Placed
<1>1. /\ \A c \in {Quote, Semicolon, Dash, Letter, Digit} : s[i] = c <=> u[j] = c
      /\ s[i] \in White => u[j] \in White
      /\ s[i] = Bar => u[j] = Bar
      /\ s[i] \in Characters
  <2>1. s[i] \in Characters
    BY <1>0 DEF Text
  <2> QED BY <2>1, SameCharacter
<1>2. i + 1 + d = j + 1 /\ i + 1 \in i + 1 .. m + 1 /\ j \in Nat
  BY <1>0
<1>3. CASE s[i] \in White
  <2>1. LexAt(s, i) = <<>> /\ LexAt(u, j) = <<>> /\ After(s, i) = i + 1 /\ After(u, j) = j + 1
    BY <1>0, <1>1, <1>3, LexAtIs
  <2> QED BY <1>2, <2>1, BlankedNothing
<1>4. CASE s[i] = Semicolon
  <2> DEFINE t == <<"semicolon", <<>>>>
  <2>1. LexAt(s, i) = <<t>> /\ LexAt(u, j) = <<t>> /\ After(s, i) = i + 1 /\ After(u, j) = j + 1
    BY <1>0, <1>1, <1>4, LexAtIs
  <2>2. t \in Tokens /\ BlankedToken(t, old) = t
    <3>1. <<>> \in Text /\ Len(<<>>) = 0
      BY DEF Text
    <3>2. Replaced(<<>>, old, Blank) = <<>>
      BY <3>1, ReplacedType, EmptySeq DEF Text
    <3> QED BY <3>1, <3>2 DEF BlankedToken, Tokens, TokenKinds
  <2> HIDE DEF t
  <2>3. Blanked(<<t>>, old) = <<t>>
    BY <2>2, BlankedOne
  <2> QED BY <1>2, <2>1, <2>3
<1>5. CASE s[i] = Quote
  <2> DEFINE c == Close(s, i)
             x == SubSeq(s, i + 1, c - 1)
             t == <<"string", x>>
  <2>1. c \in i + 1 .. m /\ Close(u, j) = c + d
    BY <1>5, SameClose
  <2>2. ~ (c > Len(s)) /\ ~ (c + d > Len(u))
    BY <1>0, <2>1
  <2>3. SubSeq(u, j + 1, (c + d) - 1) = Replaced(x, old, Blank) /\ x \in Text
    <3> DEFINE p == i + 1
               q == c - 1
    <3>1. p \in a .. m + 1 /\ q \in p - 1 .. m /\ p + d = j + 1 /\ q + d = (c + d) - 1
      BY <1>0, <2>1
    <3> HIDE DEF p, q, c
    <3>2. SubSeq(u, p + d, q + d) = Replaced(SubSeq(s, p, q), old, Blank) /\ SubSeq(s, p, q) \in Text
      BY <3>1, SameStretch
    <3> QED BY <3>1, <3>2 DEF p, q
  <2>4. LexAt(s, i) = <<t>> /\ After(s, i) = c + 1
    BY <1>0, <1>5, <2>2, LexAtIs
  <2>5. LexAt(u, j) = <<BlankedToken(t, old)>> /\ After(u, j) = (c + d) + 1
    <3>1. u[j] = Quote
      BY <1>1, <1>5
    <3>2. LexAt(u, j) = <<<<IF Close(u, j) > Len(u) THEN "unclosed" ELSE "string",
                           SubSeq(u, j + 1, Close(u, j) - 1)>>>>
          /\ After(u, j) = Close(u, j) + 1
      BY <1>0, <3>1, LexAtIs
    <3> QED BY <2>1, <2>2, <2>3, <3>2 DEF BlankedToken
  <2>6. t \in Tokens
    BY <2>3 DEF Tokens, TokenKinds
  <2> HIDE DEF t
  <2>7. Blanked(<<t>>, old) = <<BlankedToken(t, old)>>
    BY <2>6, BlankedOne
  <2>8. (c + d) + 1 = (c + 1) + d /\ c + 1 \in i + 1 .. m + 1
    BY <1>0, <2>1
  <2> QED BY <2>4, <2>5, <2>7, <2>8
<1>6. CASE s[i] = Letter
  <2> DEFINE c == WordEnd(s, i)
             x == SubSeq(s, i, c - 1)
             t == <<"name", x>>
  <2>1. c \in i + 1 .. m + 1 /\ WordEnd(u, j) = c + d
    BY <1>6, SameWord
  <2>2. SubSeq(u, j, (c + d) - 1) = Replaced(x, old, Blank) /\ x \in Text
    <3> DEFINE q == c - 1
    <3>1. i \in a .. m + 1 /\ q \in i - 1 .. m /\ q + d = (c + d) - 1
      <4>1. a \in Int /\ m \in Int /\ d \in Int /\ i \in a .. m /\ c \in i + 1 .. m + 1
        BY <1>0, <2>1
      <4> HIDE DEF c, t, x
      <4> QED BY ONLY <4>1
    <3> HIDE DEF q, c
    <3>2. SubSeq(u, i + d, q + d) = Replaced(SubSeq(s, i, q), old, Blank) /\ SubSeq(s, i, q) \in Text
      BY <3>1, SameStretch
    <3> QED BY <3>1, <3>2 DEF q
  <2>3. LexAt(s, i) = <<t>> /\ After(s, i) = c
    BY <1>0, <1>6, LexAtIs
  <2>4. LexAt(u, j) = <<BlankedToken(t, old)>> /\ After(u, j) = c + d
    <3>1. u[j] = Letter
      BY <1>1, <1>6
    <3>2. LexAt(u, j) = <<<<"name", SubSeq(u, j, WordEnd(u, j) - 1)>>>> /\ After(u, j) = WordEnd(u, j)
      BY <1>0, <3>1, LexAtIs
    <3> QED BY <2>1, <2>2, <3>2 DEF BlankedToken
  <2>5. t \in Tokens
    BY <2>2 DEF Tokens, TokenKinds
  <2> HIDE DEF t
  <2>6. Blanked(<<t>>, old) = <<BlankedToken(t, old)>>
    BY <2>5, BlankedOne
  <2> QED BY <2>1, <2>3, <2>4, <2>6
<1>7. CASE s[i] \in {Bar, Digit, Dash}
  <2> DEFINE x == <<s[i]>>
             t == <<"bad", x>>
  <2>1. IsBad(s, i)
    BY <1>7 DEF IsBad
  <2>2. u[j] = s[i]
    BY <1>1, <1>7
  <2>3. ~ IsComment(u, j)
    <3> SUFFICES ASSUME IsComment(u, j) PROVE FALSE
      OBVIOUS
    <3>1. u[j] = Dash /\ j < Len(u) /\ u[j + 1] = Dash
      BY DEF IsComment
    <3>2. s[i] = Dash
      BY <2>2, <3>1
    <3>3. CASE i + 1 <= m
      <4> DEFINE k == i + 1
      <4>1. k \in a .. m /\ k + d = j + 1 /\ i < Len(s)
        BY <1>0, <3>3
      <4> HIDE DEF k
      <4>2. s[k] = Dash
        BY <3>1, <4>1, SameCharacter
      <4> QED BY <3>2, <4>1, <4>2 DEF IsComment, k
    <3>4. CASE ~ (i + 1 <= m)
      <4>1. m + d < Len(u) /\ j + 1 = m + d + 1
        BY <1>0, <3>1, <3>4
      <4>2. u[j + 1] \in Edge
        BY <4>1 DEF Matches
      <4> QED BY <3>1, <4>2, CharactersDiffer DEF Edge, Trail
    <3> QED BY <3>3, <3>4
  <2>4. IsBad(u, j)
    BY <1>7, <2>2, <2>3 DEF IsBad
  <2>5. LexAt(s, i) = <<t>> /\ After(s, i) = i + 1
    BY <1>0, <2>1, LexAtIs
  <2>6. LexAt(u, j) = <<t>> /\ After(u, j) = j + 1
    BY <1>0, <2>2, <2>4, LexAtIs
  <2>7. x \in Text /\ Len(x) = 1 /\ x[1] = s[i]
    BY <1>1 DEF Text
  <2>8. s[i] \notin old
    <3>1. old \in SUBSET {Newline, Bar}
      BY DEF Matches
    <3> QED BY <1>7, <3>1, CharactersDiffer
  <2> HIDE DEF x
  <2>9. Replaced(x, old, Blank) = x
    <3> DEFINE r == Replaced(x, old, Blank)
    <3>1. r \in Text /\ Len(r) = 1 /\ r[1] = x[1]
      BY <2>7, <2>8, ReplacedType
    <3> HIDE DEF r
    <3>2. r = x
      BY <2>7, <3>1 DEF Text
    <3> QED BY <3>2 DEF r
  <2>10. t \in Tokens /\ BlankedToken(t, old) = t
    BY <2>7, <2>9 DEF Tokens, TokenKinds, BlankedToken
  <2> HIDE DEF t
  <2>11. Blanked(<<t>>, old) = <<t>>
    BY <2>10, BlankedOne
  <2> QED BY <1>2, <2>5, <2>6, <2>11
<1> QED BY <1>1, <1>3, <1>4, <1>5, <1>6, <1>7, CharactersDiffer

(* As far as that, and behind it there is nothing a parser looks at.        *)
Corresponds(s, u, d, a, m, old) ==
  /\ d \in Int /\ m \in 0 .. Len(s) /\ m + d \in 0 .. Len(u)
  /\ a \in 1 .. m + 1 /\ a + d >= 1
  /\ old \in SUBSET {Newline, Bar}
  /\ \A i \in a .. m : u[i + d] = IF s[i] \in old THEN Blank ELSE s[i]
  /\ \A k \in m + 1 .. Len(s) : s[k] \in Trail
  /\ \A k \in m + d + 1 .. Len(u) : u[k] \in Trail

LEMMA CorrespondsMatches ==
  ASSUME NEW s \in Text, NEW u \in Text, NEW d, NEW a, NEW m, NEW old,
         Corresponds(s, u, d, a, m, old)
  PROVE  Matches(s, u, d, a, m, old)
<1>1. /\ d \in Int /\ m \in 0 .. Len(s) /\ m + d \in 0 .. Len(u) /\ Len(s) \in Nat /\ Len(u) \in Nat
  BY DEF Corresponds, Text
<1>2. m < Len(s) => m + 1 \in m + 1 .. Len(s)
  BY <1>1
<1>3. m + d < Len(u) => m + d + 1 \in m + d + 1 .. Len(u)
  BY <1>1
<1>4. m < Len(s) => s[m + 1] \in Edge
  BY <1>2 DEF Corresponds, Edge
<1>5. m + d < Len(u) => u[m + d + 1] \in Edge
  BY <1>3 DEF Corresponds, Edge
<1> QED BY <1>4, <1>5 DEF Corresponds, Matches

(* Strings closed and, where bars become blanks, no bar outside strings.    *)
FineToken(t, old) == t[1] # "unclosed" /\ (t = <<"bad", <<Bar>>>> => Bar \notin old)
Fine(x, old) == \A k \in 1 .. Len(x) : FineToken(x[k], old)

LEMMA FineConcat ==
  ASSUME NEW x \in Seq(Tokens), NEW y \in Seq(Tokens), NEW old
  PROVE  Fine(x \o y, old) <=> Fine(x, old) /\ Fine(y, old)
<1> DEFINE z == x \o y
<1>1. /\ z \in Seq(Tokens) /\ Len(z) = Len(x) + Len(y) /\ Len(x) \in Nat /\ Len(y) \in Nat
      /\ \A i \in 1 .. Len(x) + Len(y) : z[i] = IF i <= Len(x) THEN x[i] ELSE y[i - Len(x)]
  BY ConcatProperties
<1> HIDE DEF z
<1>2. ASSUME Fine(z, old) PROVE Fine(x, old) /\ Fine(y, old)
  <2>1. ASSUME NEW k \in 1 .. Len(x) PROVE FineToken(x[k], old)
    <3>1. k \in 1 .. Len(z) /\ z[k] = x[k]
      BY <1>1
    <3> QED BY <1>2, <3>1 DEF Fine
  <2>2. ASSUME NEW k \in 1 .. Len(y) PROVE FineToken(y[k], old)
    <3> DEFINE i == Len(x) + k
    <3>1. i \in 1 .. Len(x) + Len(y) /\ ~ (i <= Len(x)) /\ i - Len(x) = k
      <4>1. Len(x) \in Nat /\ Len(y) \in Nat
        BY <1>1
      <4> QED BY ONLY <4>1, k \in 1 .. Len(y)
    <3> HIDE DEF i
    <3>2. i \in 1 .. Len(z) /\ z[i] = y[k]
      BY <1>1, <3>1
    <3> QED BY <1>2, <3>2 DEF Fine
  <2> QED BY <2>1, <2>2 DEF Fine
<1>3. ASSUME Fine(x, old), Fine(y, old), NEW k \in 1 .. Len(z) PROVE FineToken(z[k], old)
  <2>1. CASE k <= Len(x)
    <3>1. k \in 1 .. Len(x) /\ z[k] = x[k]
      BY <1>1, <2>1
    <3> QED BY <1>3, <3>1 DEF Fine
  <2>2. CASE ~ (k <= Len(x))
    <3>1. k - Len(x) \in 1 .. Len(y) /\ z[k] = y[k - Len(x)]
      BY <1>1, <2>2
    <3> QED BY <1>3, <3>1 DEF Fine
  <2> QED BY <2>1, <2>2
<1> QED BY <1>2, <1>3 DEF Fine, z

(* A comment that nothing ends.                                             *)
NoLines(s, i) == \A k \in i .. Len(s) : s[k] # Newline

LEMMA CommentSwallows ==
  ASSUME NEW s \in Text, NEW i \in 1 .. Len(s), IsComment(s, i), NoLines(s, i)
  PROVE  LexFrom(s)[i] = <<>>
<1>1. Ends(s, i, {Newline}, FirstOf(s, i, {Newline}))
  BY LineEndIs
<1>2. LexAt(s, i) = <<>> /\ After(s, i) = FirstOf(s, i, {Newline})
  BY LexAtIs
<1>3. FirstOf(s, i, {Newline}) = Len(s) + 1
  BY <1>1 DEF Ends, NoLines, Text
<1>4. LexFrom(s)[i] = <<>> \o <<>>
  BY <1>2, <1>3, LexJumps
<1>5. <<>> \o <<>> = <<>>
  OBVIOUS
<1> QED BY <1>4, <1>5

(* R is a set of positions the lexer does not leave, at which it finds no   *)
(* comment that a line ends.                                                *)
StaysIn(s, R) == \A i \in 1 .. Len(s) : i \in R => After(s, i) \in R
Unlined(s, u, d, R) ==
  \A i \in 1 .. Len(s) : i \in R /\ IsComment(s, i) => NoLines(s, i) /\ NoLines(u, i + d)

LEMMA Alike ==
  ASSUME NEW s \in Text, NEW u \in Text, NEW d, NEW a, NEW m, NEW old,
         Corresponds(s, u, d, a, m, old), NEW R, StaysIn(s, R), Unlined(s, u, d, R),
         NEW i \in a .. m + 1, i \in R, Fine(LexFrom(s)[i], old)
  PROVE  Seen(LexFrom(u)[i + d]) = Blanked(Seen(LexFrom(s)[i]), old)
<1> DEFINE n == Len(s)
           L(k) == LexFrom(s)[k]
           M(k) == LexFrom(u)[k + d]
           S == {k \in 1 .. n + 2 : k \in a .. m + 1 /\ k \in R /\ Fine(L(k), old)
                                     => Seen(M(k)) = Blanked(Seen(L(k)), old)}
<1>00. Matches(s, u, d, a, m, old)
  BY CorrespondsMatches
<1>0. /\ n \in Nat /\ Len(u) \in Nat /\ d \in Int /\ m \in Nat /\ m <= n /\ m + d <= Len(u)
      /\ a \in Nat /\ a >= 1 /\ a <= m + 1 /\ a + d >= 1
  BY <1>00, Placed
<1>1. ASSUME m + 1 >= a PROVE Seen(M(m + 1)) = Blanked(Seen(L(m + 1)), old)
  <2>1. \A k \in m + 1 .. Len(s) : s[k] \in Trail
    BY DEF Corresponds
  <2>2. Seen(L(m + 1)) = <<>>
    BY <1>0, <2>1, TrailUnseen
  <2> DEFINE j == m + 1 + d
  <2>3. j \in 1 .. Len(u) + 2 /\ \A k \in j .. Len(u) : u[k] \in Trail
    <3>1. j = m + d + 1
      BY <1>0
    <3> QED BY <1>0, <3>1 DEF Corresponds
  <2> HIDE DEF j
  <2>4. Seen(LexFrom(u)[j]) = <<>>
    BY <2>3, TrailUnseen
  <2> QED BY <2>2, <2>4, BlankedNothing DEF j
<1>2. n + 1 \in S /\ n + 2 \in S
  <2>1. n + 1 \in 1 .. n + 2 /\ n + 2 \in 1 .. n + 2 /\ n + 2 \notin a .. m + 1
    BY <1>0
  <2>2. n + 1 \in a .. m + 1 => n + 1 = m + 1 /\ m + 1 >= a
    BY <1>0
  <2> HIDE DEF L, M
  <2> QED BY <1>1, <2>1, <2>2
<1>3. ASSUME NEW k \in 1 .. n, k + 1 .. n + 2 \subseteq S PROVE k \in S
  <2>0. k \in 1 .. n + 2
    BY <1>0
  <2> SUFFICES ASSUME k \in a .. m + 1, k \in R, Fine(L(k), old)
               PROVE  Seen(M(k)) = Blanked(Seen(L(k)), old)
    BY <2>0
  <2>1. CASE k = m + 1
    BY <1>0, <1>1, <2>1
  <2>2. CASE k # m + 1 /\ IsComment(s, k)
    <3> DEFINE j == k + d
    <3>1. NoLines(s, k) /\ NoLines(u, j) /\ s[k] = Dash /\ k < n /\ s[k + 1] = Dash
      BY <2>2 DEF Unlined, IsComment
    <3>2. L(k) = <<>>
      BY <2>2, <3>1, CommentSwallows
    <3>3. k \in a .. m /\ k + 1 \in a .. m
      <4>1. k + 1 \in m + 1 .. Len(s) => s[k + 1] \in Trail
        BY DEF Corresponds
      <4>2. s[k + 1] \notin Trail
        BY <3>1, CharactersDiffer DEF Trail
      <4> QED BY <1>0, <2>2, <3>1, <4>1, <4>2
    <3>4. u[j] = Dash
      BY <1>00, <3>1, <3>3, SameCharacter
    <3>5. u[j + 1] = Dash /\ j + 1 \in 1 .. Len(u)
      <4> DEFINE h == k + 1
      <4>1. h \in a .. m /\ s[h] = Dash /\ h + d = j + 1
        BY <1>0, <3>1, <3>3
      <4> HIDE DEF h
      <4>2. u[h + d] = Dash /\ h + d \in 1 .. Len(u)
        BY <1>00, <4>1, SameCharacter
      <4> QED BY <4>1, <4>2
    <3>6. j \in 1 .. Len(u) /\ j < Len(u)
      BY <1>0, <3>3, <3>5
    <3> HIDE DEF j
    <3>7. LexFrom(u)[j] = <<>>
      BY <3>1, <3>4, <3>5, <3>6, CommentSwallows DEF IsComment
    <3> QED BY <3>2, <3>7, SeenNothing, BlankedNothing DEF j
  <2>3. CASE k # m + 1 /\ ~ IsComment(s, k)
    <3> DEFINE j == k + d
               x == LexAt(s, k)
               y == LexFrom(s)[After(s, k)]
               z == LexFrom(u)[After(s, k) + d]
    <3>1. k \in a .. m /\ k \in 1 .. Len(s) /\ j \in 1 .. Len(u)
      <4>1. k \in a .. m
        BY <1>0, <2>3
      <4> QED BY <1>00, <4>1, Placed
    <3>2. L(k) = x \o y /\ After(s, k) \in 1 .. n + 2
      <4>1. L(k) = x \o y
        BY <3>1, LexJumps
      <4>2. After(s, k) \in k + 1 .. n + 2
        BY <3>1, AfterIs
      <4> HIDE DEF L, x, y
      <4> QED BY <1>0, <4>1, <4>2
    <3>3. x \in Seq(Tokens) /\ y \in Seq(Tokens)
      BY <3>1, <3>2, LexAtType, LexType
    <3>4. Fine(x, old) /\ Fine(y, old)
      <4> HIDE DEF x, y
      <4> QED BY <3>2, <3>3, FineConcat
    <3>5. s[k] = Quote => Close(s, k) <= m
      <4> SUFFICES ASSUME s[k] = Quote, Close(s, k) > m PROVE FALSE
        <5>1. Close(s, k) \in Int
          <6>1. Ends(s, k + 1, {Quote}, Close(s, k))
            BY <3>1, CloseIs
          <6> QED BY <1>0, <6>1 DEF Ends
        <5> QED BY <1>0, <5>1
      <4>0. Close(s, k) > Len(s)
        <5> DEFINE c == Close(s, k)
        <5>1. Ends(s, k + 1, {Quote}, c)
          BY <3>1, CloseIs
        <5> HIDE DEF c
        <5>2. c \in Int /\ c > m /\ (c <= Len(s) => s[c] = Quote)
          BY <1>0, <3>1, <5>1 DEF Ends, c
        <5>3. c <= Len(s) => c \in m + 1 .. Len(s)
          BY <1>0, <5>2
        <5>4. c <= Len(s) => s[c] \in Trail
          BY <5>3 DEF Corresponds
        <5>5. ~ (c <= Len(s))
          BY <5>2, <5>4, CharactersDiffer DEF Trail
        <5> QED BY <1>0, <5>2, <5>5 DEF c
      <4> DEFINE w == SubSeq(s, k + 1, Close(s, k) - 1)
      <4>1. x = <<<<"unclosed", w>>>>
        BY <3>1, <4>0, LexAtIs
      <4>2. Len(x) = 1 /\ x[1][1] = "unclosed"
        <5> HIDE DEF w, x
        <5> QED BY <4>1
      <4> HIDE DEF x
      <4> QED BY <3>4, <4>2 DEF Fine, FineToken
    <3>6. s[k] = Bar => Bar \notin old
      <4> SUFFICES ASSUME s[k] = Bar PROVE Bar \notin old
        OBVIOUS
      <4>1. IsBad(s, k)
        BY CharactersDiffer DEF IsBad, IsComment
      <4>2. x = <<<<"bad", <<Bar>>>>>>
        BY <3>1, <4>1, LexAtIs
      <4>3. Len(x) = 1 /\ x[1] = <<"bad", <<Bar>>>>
        <5> HIDE DEF x
        <5> QED BY <4>2
      <4> HIDE DEF x
      <4> QED BY <3>4, <4>3 DEF Fine, FineToken
    <3>7. /\ LexAt(u, j) = Blanked(x, old) /\ After(u, j) = After(s, k) + d
          /\ After(s, k) \in k + 1 .. m + 1
      BY <1>00, <2>3, <3>1, <3>5, <3>6, SameToken
    <3>8. After(s, k) \in R
      BY <3>1 DEF StaysIn
    <3>9. M(k) = Blanked(x, old) \o z
      BY <3>1, <3>7, LexJumps
    <3>10. Seen(z) = Blanked(Seen(y), old)
      <4>1. After(s, k) \in S /\ After(s, k) \in a .. m + 1
        <5>1. After(s, k) \in k + 1 .. n + 2
          BY <1>0, <3>7
        <5> QED BY <1>0, <1>3, <3>1, <3>7, <5>1
      <4> QED BY <3>4, <3>8, <4>1
    <3>11. z \in Seq(Tokens)
      <4> DEFINE h == After(s, k) + d
      <4>1. h \in 1 .. Len(u) + 2
        BY <1>0, <3>1, <3>7
      <4> HIDE DEF h
      <4> QED BY <4>1, LexType DEF h
    <3>12. x = <<>> \/ \E t \in Tokens : x = <<t>>
      BY <3>1, LexAtOne
    <3> HIDE DEF L, M, j, x, y, z, S
    <3>13. CASE x = <<>>
      <4>1. Blanked(x, old) = <<>>
        BY <3>13, BlankedNothing
      <4>2. M(k) = z /\ L(k) = y
        BY <3>2, <3>3, <3>9, <3>11, <3>13, <4>1, ConcatEmptySeq
      <4> QED BY <3>10, <4>2
    <3>14. ASSUME NEW t \in Tokens, x = <<t>> PROVE Seen(M(k)) = Blanked(Seen(L(k)), old)
      <4> DEFINE b == BlankedToken(t, old)
      <4>1. b \in Tokens /\ b[1] = t[1]
        BY BlankedTokenType
      <4>2. Blanked(x, old) = <<b>>
        BY <3>14, BlankedOne
      <4>3. M(k) = <<b>> \o z /\ L(k) = <<t>> \o y
        BY <3>2, <3>9, <3>14, <4>2
      <4> HIDE DEF b
      <4>4. CASE t[1] \in Stops
        <5>1. Seen(M(k)) = <<>> /\ Seen(L(k)) = <<>>
          BY <3>3, <3>11, <4>1, <4>3, <4>4, SeenStops
        <5> QED BY <5>1, BlankedNothing
      <4>5. CASE t[1] \notin Stops
        <5>1. Seen(M(k)) = <<b>> \o Seen(z) /\ Seen(L(k)) = <<t>> \o Seen(y)
          BY <3>3, <3>11, <4>1, <4>3, <4>5, SeenGoesOn
        <5>2. Blanked(<<t>> \o Seen(y), old) = Blanked(<<t>>, old) \o Blanked(Seen(y), old)
          <6>1. <<t>> \in Seq(Tokens) /\ Seen(y) \in Seq(Tokens)
            BY <3>3, SeenType
          <6> QED BY <6>1, BlankedConcat
        <5> QED BY <3>10, <3>14, <4>2, <5>1, <5>2
      <4> QED BY <4>4, <4>5
    <3> QED BY <3>12, <3>13, <3>14
  <2> QED BY <2>1, <2>2, <2>3
<1>4. 1 .. n + 2 \subseteq S
  <2> HIDE DEF n, S
  <2> QED BY <1>0, <1>2, <1>3, FromTheEnd
<1>5. i \in S
  <2>1. i \in 1 .. n + 2
    BY <1>0
  <2> QED BY <1>4, <2>1
<1> QED BY <1>5

-----------------------------------------------------------------------------
(* Trimmed texts.                                                           *)
TrimsTo(s, p, q) ==
  /\ p \in 1 .. Len(s) + 1 /\ q \in p - 1 .. Len(s)
  /\ trim(s) = SubSeq(s, p, q)
  /\ p <= q => s[p] \notin White /\ s[q] \notin White
  /\ \A k \in 1 .. p - 1 : s[k] \in White
  /\ \A k \in q + 1 .. Len(s) : s[k] \in White

LEMMA TrimIs ==
  ASSUME NEW s \in Text
  PROVE  \E p, q : TrimsTo(s, p, q)
<1> DEFINE ink == {i \in DOMAIN s : s[i] \notin White}
<1>1. Len(s) \in Nat /\ DOMAIN s = 1 .. Len(s)
  BY DEF Text
<1>2. trim(s) = IF ink = {} THEN <<>> ELSE SubSeq(s, Min(ink), Max(ink))
  BY DEF trim
<1>3. CASE ink = {}
  <2>1. \A k \in 1 .. Len(s) : s[k] \in White
    BY <1>1, <1>3
  <2>2. SubSeq(s, Len(s) + 1, Len(s)) = <<>>
    BY <1>1, SubSeqEmpty
  <2>3. TrimsTo(s, Len(s) + 1, Len(s))
    <3> DEFINE p == Len(s) + 1
               q == Len(s)
    <3>1. /\ p \in 1 .. Len(s) + 1 /\ q \in p - 1 .. Len(s) /\ ~ (p <= q)
          /\ \A k \in 1 .. p - 1 : k \in 1 .. Len(s) /\ \A j \in q + 1 .. Len(s) : j \in 1 .. Len(s)
      BY <1>1
    <3>2. trim(s) = SubSeq(s, p, q)
      BY <1>2, <1>3, <2>2
    <3>3. \A k \in q + 1 .. Len(s) : s[k] \in White
      BY <1>1
    <3>4. \A k \in 1 .. p - 1 : s[k] \in White
      <4>1. p - 1 = Len(s)
        BY <1>1
      <4> QED BY <2>1, <4>1
    <3> HIDE DEF p, q
    <3>5. TrimsTo(s, p, q)
      BY <3>1, <3>2, <3>3, <3>4 DEF TrimsTo
    <3> QED BY <3>5 DEF p, q
  <2> QED BY <2>3
<1>4. CASE ink # {}
  <2> DEFINE p == Min(ink)
             q == Max(ink)
  <2>1. ink \in SUBSET Nat /\ ink \in SUBSET (0 .. Len(s))
    BY <1>1
  <2>2. \A k \in ink : k \in 1 .. Len(s) /\ s[k] \notin White
    BY <1>1
  <2>3. \A k \in 1 .. Len(s) : s[k] \notin White => k \in ink
    BY <1>1
  <2> HIDE DEF ink
  <2>4. p \in ink /\ \A k \in ink : p <= k
    BY <1>4, <2>1, MinIsLeast
  <2>5. q \in ink /\ \A k \in ink : k <= q
    BY <1>1, <1>4, <2>1, MaxIsGreatest
  <2> HIDE DEF p, q
  <2>6. p \in 1 .. Len(s) /\ q \in 1 .. Len(s) /\ p <= q /\ s[p] \notin White /\ s[q] \notin White
    BY <2>2, <2>4, <2>5
  <2>7. ASSUME NEW k \in 1 .. p - 1 PROVE s[k] \in White
    BY <1>1, <2>3, <2>4, <2>6
  <2>8. ASSUME NEW k \in q + 1 .. Len(s) PROVE s[k] \in White
    BY <1>1, <2>3, <2>5, <2>6
  <2>9. trim(s) = SubSeq(s, p, q)
    BY <1>2, <1>4 DEF p, q
  <2>10. p \in 1 .. Len(s) + 1 /\ q \in p - 1 .. Len(s)
    BY <1>1, <2>6
  <2>11. TrimsTo(s, p, q)
    BY <2>6, <2>7, <2>8, <2>9, <2>10 DEF TrimsTo
  <2> QED BY <2>11
<1> QED BY <1>3, <1>4

(* A text that begins and ends with ink.                                    *)
Flush(s) == s # <<>> => s[1] \notin White /\ s[Len(s)] \notin White

LEMMA TrimmedIs ==
  ASSUME NEW s \in Text, NEW p, NEW q, TrimsTo(s, p, q)
  PROVE  /\ trim(s) \in Text /\ Len(trim(s)) = q - p + 1 /\ Flush(trim(s))
         /\ \A k \in 1 .. q - p + 1 : trim(s)[k] = s[p + k - 1]
<1> DEFINE x == trim(s)
<1>1. Len(s) \in Nat /\ p \in Nat /\ q \in Int /\ p >= 1 /\ p <= Len(s) + 1 /\ q >= p - 1 /\ q <= Len(s)
  BY DEF TrimsTo, Text
<1>2. \A k \in p .. q : s[k] \in Characters
  BY <1>1 DEF Text
<1>3. x = SubSeq(s, p, q) /\ (IF p <= q THEN q - p + 1 ELSE 0) = q - p + 1
  BY <1>1 DEF TrimsTo
<1>4. x \in Text /\ Len(x) = q - p + 1 /\ \A k \in 1 .. q - p + 1 : x[k] = s[p + k - 1]
  BY <1>1, <1>2, <1>3, SubSeqProperties DEF Text
<1> HIDE DEF x
<1>5. ASSUME x # <<>> PROVE x[1] \notin White /\ x[Len(x)] \notin White
  <2>1. Len(x) \in Nat /\ Len(x) >= 1
    BY <1>4, <1>5 DEF Text
  <2>2. x[1] = s[p] /\ x[Len(x)] = s[q] /\ p <= q
    <3>1. 1 \in 1 .. q - p + 1 /\ Len(x) \in 1 .. q - p + 1 /\ p + 1 - 1 = p /\ p + Len(x) - 1 = q
      BY <1>1, <1>4, <2>1
    <3>2. p <= q
      BY <1>1, <1>4, <2>1
    <3> QED BY <1>4, <3>1, <3>2
  <2> QED BY <2>2 DEF TrimsTo
<1> QED BY <1>4, <1>5 DEF Flush, x

LEMMA TrimType ==
  ASSUME NEW s \in Text
  PROVE  trim(s) \in Text /\ Flush(trim(s))
BY TrimIs, TrimmedIs

(* Where a text that is not all white begins and ends is determined.        *)
LEMMA TrimFlush ==
  ASSUME NEW s \in Text, Flush(s)
  PROVE  trim(s) = s
<1>1. PICK p, q : TrimsTo(s, p, q)
  BY TrimIs
<1>2. Len(s) \in Nat /\ p \in Nat /\ q \in Int /\ p >= 1 /\ p <= Len(s) + 1 /\ q >= p - 1 /\ q <= Len(s)
  BY <1>1 DEF TrimsTo, Text
<1>3. CASE s = <<>>
  <2>1. trim(s) \in Text /\ Len(trim(s)) = q - p + 1
    BY <1>1, TrimmedIs
  <2>2. Len(trim(s)) = 0
    BY <1>2, <1>3, <2>1 DEF Text
  <2> QED BY <1>3, <2>1, <2>2, EmptySeq DEF Text
<1>4. CASE s # <<>>
  <2>1. Len(s) >= 1 /\ s[1] \notin White /\ s[Len(s)] \notin White
    BY <1>2, <1>4 DEF Flush, Text
  <2>2. p = 1
    BY <1>1, <1>2, <2>1 DEF TrimsTo
  <2>3. q = Len(s)
    BY <1>1, <1>2, <2>1 DEF TrimsTo
  <2>4. trim(s) = SubSeq(s, 1, Len(s))
    BY <1>1, <2>2, <2>3 DEF TrimsTo
  <2> QED BY <2>4, SubSeqFull DEF Text
<1> QED BY <1>3, <1>4

-----------------------------------------------------------------------------
(* What is executed of a statement, and what is replayed of its record.     *)
LEMMA BodyIs ==
  ASSUME NEW s \in Text, Flush(s)
  PROVE  \E m \in 0 .. Len(s) : /\ Body(s) \in Text /\ Len(Body(s)) = m
                                /\ \A k \in 1 .. m : Body(s)[k] = s[k]
                                /\ \A k \in m + 1 .. Len(s) : s[k] \in Trail
<1>0. Len(s) \in Nat
  BY DEF Text
<1>1. Body(s) = IF s # <<>> /\ Last(s) = Semicolon THEN trim(Front(s)) ELSE s
  BY TrimFlush DEF Body
<1>2. CASE ~ (s # <<>> /\ Last(s) = Semicolon)
  <2>1. Body(s) = s
    BY <1>1, <1>2
  <2>2. Len(s) \in 0 .. Len(s) /\ \A k \in Len(s) + 1 .. Len(s) : s[k] \in Trail
    BY <1>0
  <2> QED BY <2>1, <2>2
<1>3. CASE s # <<>> /\ Last(s) = Semicolon
  <2> DEFINE n == Len(s) - 1
             f == Front(s)
  <2>1. n \in Nat /\ n + 1 = Len(s) /\ s[n + 1] = Semicolon
    BY <1>0, <1>3 DEF Last, Text
  <2>2. f \in Text /\ Len(f) = n /\ \A k \in 1 .. n : f[k] = s[k]
    <3>1. \A k \in 1 .. n : s[k] \in Characters
      BY <1>0, <2>1 DEF Text
    <3>2. f = SubSeq(s, 1, n) /\ (IF 1 <= n THEN n - 1 + 1 ELSE 0) = n /\ n - 1 + 1 = n
      BY <2>1 DEF Front
    <3>3. \A k \in 1 .. n : 1 + k - 1 = k
      OBVIOUS
    <3> HIDE DEF f, n
    <3> QED BY <2>1, <3>1, <3>2, <3>3, SubSeqProperties DEF Text
  <2> HIDE DEF f, n
  <2>3. PICK p, q : TrimsTo(f, p, q)
    BY <2>2, TrimIs
  <2>4. /\ p \in Nat /\ q \in Int /\ p >= 1 /\ p <= n + 1 /\ q >= p - 1 /\ q <= n
        /\ p <= q => f[p] \notin White
        /\ \A k \in 1 .. p - 1 : f[k] \in White
        /\ \A k \in q + 1 .. n : f[k] \in White
    BY <2>1, <2>2, <2>3 DEF TrimsTo
  <2>5. trim(f) \in Text /\ Len(trim(f)) = q - p + 1 /\ \A k \in 1 .. q - p + 1 : trim(f)[k] = f[p + k - 1]
    BY <2>2, <2>3, TrimmedIs
  <2>6. Body(s) = trim(f)
    BY <1>1, <1>3 DEF f
  <2>7. n >= 1 => p = 1
    <3> SUFFICES ASSUME n >= 1, p # 1 PROVE FALSE
      OBVIOUS
    <3>1. 1 \in 1 .. p - 1 /\ 1 \in 1 .. n
      BY <2>1, <2>4
    <3>2. s[1] \in White
      BY <2>2, <2>4, <3>1
    <3> QED BY <1>3, <3>2 DEF Flush
  <2> DEFINE m == q - p + 1
  <2>8. m \in 0 .. Len(s) /\ m <= n
    BY <2>1, <2>4
  <2>9. ASSUME NEW k \in 1 .. m PROVE Body(s)[k] = s[k]
    <3>1. p = 1 /\ k \in 1 .. n
      BY <2>1, <2>4, <2>7, <2>8
    <3>2. p + k - 1 = k /\ k \in 1 .. q - p + 1
      BY <2>9, <3>1
    <3> QED BY <2>2, <2>5, <2>6, <3>1, <3>2
  <2>10. ASSUME NEW k \in m + 1 .. Len(s) PROVE s[k] \in Trail
    <3>1. CASE k = n + 1
      BY <2>1, <3>1 DEF Trail
    <3>2. CASE k # n + 1
      <4>1. k \in 1 .. n /\ n >= 1
        BY <2>1, <2>8, <3>2
      <4>2. p = 1 /\ k \in q + 1 .. n
        BY <2>1, <2>4, <2>7, <4>1
      <4>3. s[k] \in White
        BY <2>2, <2>4, <4>1, <4>2
      <4> QED BY <4>3, CharactersDiffer DEF Trail
    <3> QED BY <3>1, <3>2
  <2>11. Body(s) \in Text /\ Len(Body(s)) = m
    BY <2>5, <2>6
  <2> HIDE DEF m
  <2> QED BY <2>8, <2>9, <2>10, <2>11
<1> QED BY <1>2, <1>3

LEMMA BlankAdded ==
  ASSUME NEW s \in Text
  PROVE  /\ s \o <<Blank>> \in Text /\ Len(s \o <<Blank>>) = Len(s) + 1
         /\ \A k \in 1 .. Len(s) : (s \o <<Blank>>)[k] = s[k]
         /\ (s \o <<Blank>>)[Len(s) + 1] = Blank
BY CharactersDiffer, Lengthened DEF Text

LEMMA BlankedNone ==
  ASSUME NEW x \in Seq(Tokens)
  PROVE  Blanked(x, {}) = x
<1>1. ASSUME NEW t \in Tokens PROVE BlankedToken(t, {}) = t
  <2>1. t[1] \in TokenKinds /\ t[2] \in Text /\ t = <<t[1], t[2]>>
    BY DEF Tokens
  <2> DEFINE w == t[2]
             r == Replaced(w, {}, Blank)
  <2>2. w \in Text /\ r \in Text /\ Len(r) = Len(w) /\ \A k \in 1 .. Len(w) : r[k] = w[k]
    BY <2>1, ReplacedType
  <2> HIDE DEF w, r
  <2>3. r = w
    BY <2>2, SeqEqual DEF Text
  <2> QED BY <2>1, <2>3 DEF BlankedToken, r, w
<1> DEFINE l == Blanked(x, {})
<1>2. l \in Seq(Tokens) /\ Len(l) = Len(x) /\ \A i \in 1 .. Len(x) : l[i] = BlankedToken(x[i], {})
  BY BlankedIs
<1> HIDE DEF l
<1>3. \A i \in 1 .. Len(l) : l[i] = x[i]
  BY <1>1, <1>2
<1>4. l = x
  BY <1>2, <1>3, SeqEqual
<1> QED BY <1>4 DEF l

(* A statement on one line is executed as the tokens of its text, and its   *)
(* record is replayed as the same tokens with blanks for bars.              *)
LEMMA ReplayIs ==
  ASSUME NEW s \in Text, Flush(s), NoLines(s, 1), Fine(Lex(s), {Newline, Bar})
  PROVE  Seen(Lex(sanitize_line(s) \o <<Blank>>)) = Barless(Execution(s))
<1>1. Len(s) \in Nat /\ Lex(s) \in Seq(Tokens)
  BY LexType DEF Text, Lex
<1>2. StaysIn(s, Int)
  BY AfterIs DEF StaysIn
<1>3. Execution(s) = Seen(Lex(s))
  <2>1. PICK m \in 0 .. Len(s) : /\ Body(s) \in Text /\ Len(Body(s)) = m
                                 /\ \A k \in 1 .. m : Body(s)[k] = s[k]
                                 /\ \A k \in m + 1 .. Len(s) : s[k] \in Trail
    BY BodyIs
  <2> DEFINE u == Body(s) \o <<Blank>>
  <2>2. u \in Text /\ Len(u) = m + 1 /\ (\A k \in 1 .. m : u[k] = s[k]) /\ u[m + 1] = Blank
    BY <2>1, BlankAdded
  <2> HIDE DEF u
  <2>3. Corresponds(s, u, 0, 1, m, {})
    <3>1. \A i \in 1 .. m : u[i + 0] = s[i]
      BY <2>2
    <3>2. \A k \in m + 0 + 1 .. Len(u) : u[k] \in Trail
      <4>1. \A k \in m + 0 + 1 .. Len(u) : k = m + 1
        BY <2>2
      <4> QED BY <2>2, <4>1 DEF Trail
    <3>3. m + 0 \in 0 .. Len(u) /\ 1 \in 1 .. m + 1 /\ 0 \in Int /\ 1 + 0 >= 1
      BY <2>2
    <3> QED BY <2>1, <3>1, <3>2, <3>3 DEF Corresponds
  <2>4. Unlined(s, u, 0, Int)
    <3>1. ASSUME NEW k \in 1 .. Len(u) PROVE u[k] # Newline
      <4>1. CASE k <= m
        <5>1. k \in 1 .. m /\ k \in 1 .. Len(s)
          BY <1>1, <4>1
        <5> QED BY <2>2, <5>1 DEF NoLines
      <4>2. CASE ~ (k <= m)
        <5>1. k = m + 1
          BY <2>2, <4>2
        <5> QED BY <2>2, <5>1, CharactersDiffer
      <4> QED BY <4>1, <4>2
    <3>2. \A i \in 1 .. Len(s) : \A k \in i + 0 .. Len(u) : k \in 1 .. Len(u)
      BY <1>1, <2>2
    <3>3. \A i \in 1 .. Len(s) : \A k \in i .. Len(s) : k \in 1 .. Len(s)
      BY <1>1
    <3> QED BY <3>1, <3>2, <3>3 DEF Unlined, NoLines
  <2>5. Fine(LexFrom(s)[1], {})
    BY DEF Fine, FineToken, Lex
  <2>6. 1 \in 1 .. m + 1 /\ 1 \in Int /\ 1 + 0 = 1
    BY <2>1
  <2>7. Seen(LexFrom(u)[1 + 0]) = Blanked(Seen(LexFrom(s)[1]), {})
    BY <2>2, <1>2, <2>3, <2>4, <2>5, <2>6, Alike
  <2>8. Seen(Lex(u)) = Blanked(Seen(Lex(s)), {})
    BY <2>6, <2>7 DEF Lex
  <2>9. Blanked(Seen(Lex(s)), {}) = Seen(Lex(s))
    BY <1>1, SeenType, BlankedNone
  <2> QED BY <2>8, <2>9 DEF Execution, u
<1>4. Seen(Lex(sanitize_line(s) \o <<Blank>>)) = Barless(Seen(Lex(s)))
  <2> DEFINE old == {Newline, Bar}
             r == sanitize_line(s)
             u == r \o <<Blank>>
             m == Len(s)
  <2>1. r \in Text /\ Len(r) = m /\ \A k \in 1 .. m : r[k] = IF s[k] \in old THEN Blank ELSE s[k]
    BY ReplacedType DEF sanitize_line
  <2> HIDE DEF r
  <2>2. u \in Text /\ Len(u) = m + 1 /\ (\A k \in 1 .. m : u[k] = r[k]) /\ u[m + 1] = Blank
    BY <2>1, BlankAdded
  <2> HIDE DEF u
  <2>3. Corresponds(s, u, 0, 1, m, old)
    <3>1. \A i \in 1 .. m : u[i + 0] = IF s[i] \in old THEN Blank ELSE s[i]
      <4>1. \A i \in 1 .. m : i + 0 = i
        OBVIOUS
      <4> HIDE DEF old, m
      <4> QED BY <2>1, <2>2, <4>1
    <3>2. \A k \in m + 0 + 1 .. Len(u) : u[k] \in Trail
      <4>1. \A k \in m + 0 + 1 .. Len(u) : k = m + 1
        BY <1>1, <2>2
      <4> QED BY <2>2, <4>1 DEF Trail
    <3>3. m \in 0 .. Len(s) /\ m + 0 \in 0 .. Len(u) /\ 1 \in 1 .. m + 1 /\ 0 \in Int /\ 1 + 0 >= 1
      BY <1>1, <2>2
    <3>4. \A k \in m + 1 .. Len(s) : s[k] \in Trail
      BY <1>1
    <3>5. old \in SUBSET {Newline, Bar}
      OBVIOUS
    <3> HIDE DEF m, old
    <3> QED BY <3>1, <3>2, <3>3, <3>4, <3>5 DEF Corresponds
  <2>4. Unlined(s, u, 0, Int)
    <3>1. ASSUME NEW k \in 1 .. Len(u) PROVE u[k] # Newline
      <4>1. CASE k <= m
        <5>1. k \in 1 .. m
          BY <1>1, <4>1
        <5>2. s[k] # Newline /\ u[k] = IF s[k] \in old THEN Blank ELSE s[k]
          BY <2>1, <2>2, <5>1 DEF NoLines
        <5> QED BY <5>2, CharactersDiffer
      <4>2. CASE ~ (k <= m)
        <5>1. k = m + 1
          BY <1>1, <2>2, <4>2
        <5> QED BY <2>2, <5>1, CharactersDiffer
      <4> QED BY <4>1, <4>2
    <3>2. \A i \in 1 .. Len(s) : \A k \in i + 0 .. Len(u) : k \in 1 .. Len(u)
      BY <1>1, <2>2
    <3>3. \A i \in 1 .. Len(s) : \A k \in i .. Len(s) : k \in 1 .. Len(s)
      BY <1>1
    <3> QED BY <3>1, <3>2, <3>3 DEF Unlined, NoLines
  <2>5. 1 \in 1 .. m + 1 /\ 1 \in Int /\ 1 + 0 = 1 /\ Fine(LexFrom(s)[1], old)
    BY <1>1 DEF Lex
  <2> HIDE DEF m, old
  <2>6. Seen(LexFrom(u)[1 + 0]) = Blanked(Seen(LexFrom(s)[1]), old)
    BY <2>2, <1>2, <2>3, <2>4, <2>5, Alike
  <2> QED BY <2>5, <2>6 DEF Lex, Barless, u, r, old
<1> QED BY <1>3, <1>4

-----------------------------------------------------------------------------
(* A line of the journal, and how it is read.                               *)
Reads(line, n, s) ==
  /\ line \in Text /\ Len(line) = n + 4 + Len(s) /\ Len(s) \in Nat
  /\ \A k \in 1 .. n : line[k] = Digit
  /\ line[n + 1] = Bar /\ line[n + 2] = Letter /\ line[n + 3] = Bar
  /\ \A k \in 1 .. Len(s) : line[n + 3 + k] = sanitize_line(s)[k]
  /\ line[n + 4 + Len(s)] = Newline

LEMMA LineIs ==
  ASSUME NEW n \in Nat, NEW s \in Text, NEW line, line = JournalLine(n, s)
  PROVE  Reads(line, n, s)
<1> DEFINE a == Stamp(n)
           b == <<Bar, Letter, Bar>>
           c == sanitize_line(s)
           e == <<Newline>>
           x == a \o b
           y == x \o c
           z == y \o e
<1>1. a \in Text /\ Len(a) = n /\ \A k \in 1 .. n : a[k] = Digit
  <2>1. Digit \in Characters
    BY CharactersDiffer
  <2> QED BY <2>1 DEF Stamp, Text
<1>2. b \in Text /\ Len(b) = 3 /\ b[1] = Bar /\ b[2] = Letter /\ b[3] = Bar
  BY CharactersDiffer DEF Text
<1>3. c \in Text /\ Len(c) = Len(s) /\ Len(s) \in Nat
  BY ReplacedType DEF sanitize_line, Text
<1>4. e \in Text /\ Len(e) = 1 /\ e[1] = Newline
  BY CharactersDiffer DEF Text
<1>5. line = z
  BY DEF JournalLine
<1> HIDE DEF a, b, c, e
<1>6. /\ x \in Text /\ Len(x) = Len(a) + Len(b)
      /\ \A k \in 1 .. Len(a) + Len(b) : x[k] = IF k <= Len(a) THEN a[k] ELSE b[k - Len(a)]
  <2>1. a \in Seq(Characters) /\ b \in Seq(Characters)
    BY <1>1, <1>2 DEF Text
  <2> QED BY ONLY <2>1, ConcatProperties DEF Text
<1> HIDE DEF x
<1>7. /\ y \in Text /\ Len(y) = Len(x) + Len(c)
      /\ \A k \in 1 .. Len(x) + Len(c) : y[k] = IF k <= Len(x) THEN x[k] ELSE c[k - Len(x)]
  <2>1. x \in Seq(Characters) /\ c \in Seq(Characters)
    BY <1>3, <1>6 DEF Text
  <2> QED BY ONLY <2>1, ConcatProperties DEF Text
<1> HIDE DEF y
<1>8. /\ z \in Text /\ Len(z) = Len(y) + Len(e)
      /\ \A k \in 1 .. Len(y) + Len(e) : z[k] = IF k <= Len(y) THEN y[k] ELSE e[k - Len(y)]
  <2>1. y \in Seq(Characters) /\ e \in Seq(Characters)
    BY <1>4, <1>7 DEF Text
  <2> QED BY ONLY <2>1, ConcatProperties DEF Text
<1> HIDE DEF z
<1>9. Len(x) = n + 3 /\ Len(y) = n + 3 + Len(s) /\ Len(z) = n + 4 + Len(s)
  BY <1>1, <1>2, <1>3, <1>4, <1>6, <1>7, <1>8
<1>10. ASSUME NEW k \in 1 .. n + 3 PROVE z[k] = IF k <= n THEN a[k] ELSE b[k - n]
  <2>1. z[k] = y[k]
    BY <1>3, <1>4, <1>8, <1>9
  <2>2. y[k] = x[k]
    BY <1>3, <1>7, <1>9
  <2>3. x[k] = IF k <= n THEN a[k] ELSE b[k - n]
    BY <1>1, <1>2, <1>6
  <2> QED BY <2>1, <2>2, <2>3
<1>11. \A k \in 1 .. n : z[k] = Digit
  BY <1>1, <1>10
<1>12. z[n + 1] = b[1] /\ z[n + 2] = b[2] /\ z[n + 3] = b[3]
  BY <1>10
<1>13. ASSUME NEW k \in 1 .. Len(s) PROVE z[n + 3 + k] = c[k]
  <2> DEFINE j == n + 3 + k
  <2>1. j \in 1 .. Len(y) /\ ~ (j <= n + 3) /\ j - (n + 3) = k /\ j <= Len(y)
    BY <1>3, <1>9
  <2> HIDE DEF j
  <2>2. z[j] = y[j]
    BY <1>3, <1>4, <1>8, <1>9, <2>1
  <2>3. y[j] = c[j - (n + 3)]
    BY <1>3, <1>7, <1>9, <2>1
  <2> QED BY <2>1, <2>2, <2>3 DEF j
<1>14. z[n + 4 + Len(s)] = e[1]
  BY <1>3, <1>4, <1>8, <1>9
<1> QED BY <1>2, <1>3, <1>4, <1>5, <1>8, <1>9, <1>11, <1>12, <1>13, <1>14 DEF c, Reads

(* A line that stands at p in the data, behind the end of another.          *)
LineHolds(data, p, line) ==
  /\ p \in 1 .. Len(data) /\ p + Len(line) - 1 <= Len(data)
  /\ p = 1 \/ data[p - 1] = Newline
  /\ \A k \in 1 .. Len(line) : data[p + k - 1] = line[k]

(* The line is read as the record that was written.                         *)
LEMMA LineIsRead ==
  ASSUME NEW n \in Nat, NEW s \in Text, NEW data \in Text, NEW p,
         LineHolds(data, p, JournalLine(n, s))
  PROVE  /\ p \in DOMAIN Records(data)
         /\ Records(data)[p].ts = Stamp(n) /\ Records(data)[p].db = <<Letter>>
         /\ Records(data)[p].sql = sanitize_line(s)
<1> DEFINE line == JournalLine(n, s)
           w == sanitize_line(s)
           width == n + 3 + Len(s)
           l == LineAt(data, p)
<1>1. /\ line \in Text /\ Len(line) = n + 4 + Len(s) /\ Len(s) \in Nat
      /\ \A k \in 1 .. n : line[k] = Digit
      /\ line[n + 1] = Bar /\ line[n + 2] = Letter /\ line[n + 3] = Bar
      /\ \A k \in 1 .. Len(s) : line[n + 3 + k] = w[k]
      /\ line[n + 4 + Len(s)] = Newline
  <2>1. n \in Nat /\ s \in Text /\ line = JournalLine(n, s) /\ w = sanitize_line(s)
    OBVIOUS
  <2> HIDE DEF line, w
  <2>2. Reads(line, n, s)
    BY ONLY <2>1, LineIs
  <2> QED BY ONLY <2>1, <2>2 DEF Reads
<1>2. /\ p \in 1 .. Len(data) /\ p + Len(line) - 1 <= Len(data)
      /\ p = 1 \/ data[p - 1] = Newline
      /\ \A k \in 1 .. Len(line) : data[p + k - 1] = line[k]
  BY DEF LineHolds
<1>3. /\ w \in Text /\ Len(w) = Len(s)
      /\ \A k \in 1 .. Len(s) : w[k] = IF s[k] \in {Newline, Bar} THEN Blank ELSE s[k]
  BY ReplacedType DEF sanitize_line
<1>4. Len(data) \in Nat /\ DOMAIN data = 1 .. Len(data)
  BY DEF Text
<1> HIDE DEF line, w
<1>5. \A k \in 1 .. Len(s) : w[k] # Newline /\ w[k] # Bar
  BY <1>3, CharactersDiffer
<1>6. ASSUME NEW k \in 1 .. width PROVE line[k] # Newline /\ data[p + k - 1] = line[k]
  <2>1. data[p + k - 1] = line[k]
    <3>1. k \in 1 .. Len(line)
      BY <1>1
    <3> QED BY ONLY <1>2, <3>1
  <2>2. CASE k <= n
    BY <1>1, <2>2, <2>1, CharactersDiffer
  <2>3. CASE k = n + 1 \/ k = n + 2 \/ k = n + 3
    BY <1>1, <2>3, <2>1, CharactersDiffer
  <2>4. CASE k > n + 3
    <3>1. k - (n + 3) \in 1 .. Len(s) /\ n + 3 + (k - (n + 3)) = k
      BY <1>1, <2>4
    <3>2. line[k] = w[k - (n + 3)]
      BY <1>1, <3>1
    <3> QED BY <1>5, <2>1, <3>1, <3>2
  <2> QED BY <1>1, <2>2, <2>3, <2>4
<1> DEFINE e == p + width
<1>0. width \in Nat /\ p \in Nat /\ e \in Nat /\ e - p = width
  BY <1>1, <1>2
<1>7. FirstOf(data, p, {Newline}) = e
  <2>1. e \in p .. Len(data) + 1
    BY <1>1, <1>2, <1>4
  <2>2. data[e] \in {Newline}
    <3>1. width + 1 \in 1 .. Len(line) /\ p + (width + 1) - 1 = e /\ width + 1 = n + 4 + Len(s)
      BY <1>1, <1>2
    <3> HIDE DEF e, width
    <3> QED BY <1>1, <1>2, <3>1
  <2> HIDE DEF e, width, l
  <2>3. ASSUME NEW k \in p .. e - 1 PROVE data[k] \notin {Newline}
    <3> DEFINE j == k - p + 1
    <3>1. j \in 1 .. width /\ p + j - 1 = k
      BY <1>0
    <3> HIDE DEF j
    <3> QED BY <1>6, <3>1
  <2>4. Ends(data, p, {Newline}, e)
    BY <2>1, <2>2, <2>3 DEF Ends
  <2>5. p \in 1 .. Len(data) + 1
    BY <1>2, <1>4
  <2> QED BY <2>4, <2>5, FirstOfOnly DEF Text
<1>8. l \in Text /\ Len(l) = width /\ \A k \in 1 .. width : l[k] = line[k]
  <2> DEFINE q == e - 1
  <2> HIDE DEF e
  <2>1. l = SubSeq(data, p, q)
    BY <1>7 DEF LineAt
  <2>2. p \in Int /\ q \in Int /\ q - p + 1 = width /\ p <= q /\ q <= Len(data)
    <3>1. width >= 1 /\ width + 1 = Len(line)
      BY <1>1
    <3>2. p + Len(line) - 1 <= Len(data)
      BY <1>2
    <3> HIDE DEF width
    <3> QED BY <1>0, <1>4, <3>1, <3>2 DEF e
  <2>3. \A k \in p .. q : data[k] \in Characters
    BY <1>2, <1>4, <2>2 DEF Text
  <2> HIDE DEF q, l, width
  <2>4. l \in Text /\ Len(l) = width /\ \A k \in 1 .. width : l[k] = data[p + k - 1]
    BY <2>1, <2>2, <2>3, SubSeqProperties DEF Text
  <2> QED BY <1>6, <2>4
<1> HIDE DEF e
<1> HIDE DEF l
<1>9. FirstBar(l) = n + 1
  <2>1. n + 1 \in 1 .. Len(l) + 1 /\ l[n + 1] \in {Bar}
    BY <1>1, <1>8
  <2>2. ASSUME NEW k \in 1 .. (n + 1) - 1 PROVE l[k] \notin {Bar}
    <3>1. k \in 1 .. n /\ k \in 1 .. width
      BY <1>1
    <3> QED BY <1>1, <1>8, <3>1, CharactersDiffer
  <2>3. Ends(l, 1, {Bar}, n + 1)
    BY <2>1, <2>2 DEF Ends
  <2>4. 1 \in 1 .. Len(l) + 1
    BY <1>1, <1>8
  <2> QED BY <1>8, <2>3, <2>4, FirstOfOnly DEF FirstBar, Text
<1>10. SecondBar(l) = n + 3
  <2> DEFINE i == FirstBar(l) + 1
  <2>1. i = n + 2 /\ i \in 1 .. Len(l) + 1
    BY <1>1, <1>8, <1>9
  <2> HIDE DEF i
  <2>2. n + 3 \in i .. Len(l) + 1 /\ l[n + 3] \in {Bar}
    BY <1>1, <1>8, <2>1
  <2>3. ASSUME NEW k \in i .. (n + 3) - 1 PROVE l[k] \notin {Bar}
    <3>1. k = n + 2 /\ k \in 1 .. width
      BY <1>1, <2>1
    <3> QED BY <1>1, <1>8, <3>1, CharactersDiffer
  <2>4. Ends(l, i, {Bar}, n + 3)
    BY <2>2, <2>3 DEF Ends
  <2> QED BY <1>8, <2>1, <2>4, FirstOfOnly DEF SecondBar, Text, i
<1>11. p \in DOMAIN Records(data) /\ Records(data)[p] = Record(l)
  <2>1. p \in LineStarts(data)
    BY <1>2, <1>4 DEF LineStarts
  <2>2. SecondBar(l) <= Len(l)
    BY <1>1, <1>8, <1>10
  <2> QED BY <2>1, <2>2 DEF Records, l
<1>12. Record(l).ts = Stamp(n)
  <2> DEFINE x == SubSeq(l, 1, n)
             y == Stamp(n)
  <2>1. Record(l).ts = x
    <3>1. (n + 1) - 1 = n
      OBVIOUS
    <3> QED BY <1>9, <3>1 DEF Record
  <2>2. y \in Text /\ Len(y) = n /\ \A k \in 1 .. n : y[k] = Digit
    BY CharactersDiffer DEF Stamp, Text
  <2>3. x \in Text /\ Len(x) = n /\ \A k \in 1 .. n : x[k] = l[k]
    <3>1. \A k \in 1 .. n : l[k] \in Characters /\ 1 + k - 1 = k
      BY <1>1, <1>8 DEF Text
    <3>2. n - 1 + 1 = n /\ (IF 1 <= n THEN n - 1 + 1 ELSE 0) = n
      OBVIOUS
    <3> QED BY <3>1, <3>2, SubSeqProperties DEF Text
  <2>4. ASSUME NEW k \in 1 .. n PROVE x[k] = y[k]
    <3>1. k \in 1 .. width
      BY <1>1
    <3> HIDE DEF x, y
    <3> QED BY <1>1, <1>8, <2>2, <2>3, <3>1
  <2> HIDE DEF x, y
  <2>5. x = y
    BY <2>2, <2>3, <2>4, SeqEqual DEF Text
  <2> QED BY <2>1, <2>5 DEF y
<1>13. Record(l).db = <<Letter>>
  <2> DEFINE i == n + 2
             x == SubSeq(l, i, i)
  <2>1. Record(l).db = x
    <3>1. (n + 1) + 1 = i /\ (n + 3) - 1 = i
      OBVIOUS
    <3> QED BY <1>9, <1>10, <3>1 DEF Record
  <2>2. i \in 1 .. width /\ i \in Int
    BY <1>1
  <2>3. l[i] = Letter
    BY <1>1, <1>8, <2>2
  <2> HIDE DEF i
  <2>4. x \in Text /\ Len(x) = 1 /\ x[1] = l[i]
    <3>1. \A k \in i .. i : l[k] \in Characters
      BY <1>8, <2>2 DEF Text
    <3>2. i - i + 1 = 1 /\ i <= i /\ i + 1 - 1 = i
      BY <2>2
    <3> QED BY <2>2, <3>1, <3>2, SubSeqProperties DEF Text
  <2> HIDE DEF x
  <2>5. x = <<l[i]>>
    BY <2>4 DEF Text
  <2> QED BY <2>1, <2>3, <2>5
<1>14. Record(l).sql = w
  <2> DEFINE i == n + 4
             x == SubSeq(l, i, width)
  <2>1. Record(l).sql = x
    <3>1. (n + 3) + 1 = i
      OBVIOUS
    <3> QED BY <1>8, <1>10, <3>1 DEF Record
  <2>2. i \in Int /\ width \in Int /\ width - i + 1 = Len(s) /\ (IF i <= width THEN width - i + 1 ELSE 0) = Len(s)
    <3>1. n \in Nat /\ Len(s) \in Nat
      BY <1>1
    <3> QED BY ONLY <3>1
  <2>3. \A k \in i .. width : l[k] \in Characters
    BY <1>8 DEF Text
  <2>4. \A k \in 1 .. Len(s) : i + k - 1 = n + 3 + k /\ n + 3 + k \in 1 .. width
    <3>1. Len(s) \in Nat
      BY <1>1
    <3> QED BY <3>1
  <2> HIDE DEF i, width
  <2>5. x \in Text /\ Len(x) = Len(s) /\ \A k \in 1 .. Len(s) : x[k] = l[i + k - 1]
    BY <2>2, <2>3, SubSeqProperties DEF Text
  <2> HIDE DEF x
  <2>6. ASSUME NEW k \in 1 .. Len(s) PROVE x[k] = w[k]
    <3>1. x[k] = l[n + 3 + k]
      BY <2>4, <2>5
    <3>2. l[n + 3 + k] = line[n + 3 + k]
      BY <1>8, <2>4
    <3> QED BY <1>1, <3>1, <3>2
  <2>7. x = w
    BY <1>3, <2>5, <2>6, SeqEqual DEF Text
  <2> QED BY <2>1, <2>7
<1> QED BY <1>11, <1>12, <1>13, <1>14 DEF w

-----------------------------------------------------------------------------
(* What the client makes of a file: texts on one line.                      *)
Statement == {s \in Text : Flush(s) /\ NoLines(s, 1)}

LEMMA FlattenIs ==
  ASSUME NEW s \in Text
  PROVE  flatten_sql(s) \in Statement
<1> DEFINE r == Replaced(s, {Newline}, Blank)
<1>1. r \in Text /\ Len(r) = Len(s) /\ \A i \in 1 .. Len(s) : r[i] # Newline
  BY ReplacedType, CharactersDiffer
<1> HIDE DEF r
<1>2. flatten_sql(s) = trim(r)
  BY DEF flatten_sql, r
<1>3. PICK p, q : TrimsTo(r, p, q)
  BY <1>1, TrimIs
<1>4. trim(r) \in Text /\ Len(trim(r)) = q - p + 1 /\ Flush(trim(r))
      /\ \A k \in 1 .. q - p + 1 : trim(r)[k] = r[p + k - 1]
  BY <1>1, <1>3, TrimmedIs
<1>5. p \in Nat /\ q \in Int /\ p >= 1 /\ q <= Len(r) /\ Len(r) \in Nat /\ q >= p - 1
  BY <1>1, <1>3 DEF TrimsTo, Text
<1>6. \A k \in 1 .. q - p + 1 : p + k - 1 \in 1 .. Len(s)
  BY <1>1, <1>5
<1>7. NoLines(trim(r), 1)
  BY <1>1, <1>4, <1>6 DEF NoLines
<1> QED BY <1>2, <1>4, <1>7 DEF Statement

CutState == [out : Seq(Text), cur : Text, in_str : BOOLEAN]
CutStart == [out |-> <<>>, cur |-> <<>>, in_str |-> FALSE]

LEMMA KeptType ==
  ASSUME NEW out \in Seq(Text), NEW cur \in Text
  PROVE  Kept(out, cur) \in Seq(Text)
BY TrimType, AppendProperties DEF Kept

LEMMA CutType ==
  ASSUME NEW st \in CutState, NEW c \in Characters
  PROVE  Cut(st, c) \in CutState
<1>1. st.out \in Seq(Text) /\ st.cur \in Text /\ st.in_str \in BOOLEAN
  BY DEF CutState
<1>2. Append(st.cur, c) \in Text /\ Kept(st.out, st.cur) \in Seq(Text) /\ <<>> \in Text
  BY <1>1, KeptType, AppendProperties DEF Text
<1>3. CASE c = Quote
  <2>1. Cut(st, c) = [st EXCEPT !.cur = Append(st.cur, c), !.in_str = ~ st.in_str]
    BY <1>3 DEF Cut
  <2> QED BY <1>1, <1>2, <2>1 DEF CutState
<1>4. CASE c # Quote /\ c = Semicolon /\ ~ st.in_str
  <2>1. Cut(st, c) = [out |-> Kept(st.out, st.cur), cur |-> <<>>, in_str |-> FALSE]
    BY <1>4 DEF Cut
  <2> QED BY <1>1, <1>2, <2>1 DEF CutState
<1>5. CASE c # Quote /\ ~ (c = Semicolon /\ ~ st.in_str)
  <2>1. Cut(st, c) = [st EXCEPT !.cur = Append(st.cur, c)]
    BY <1>5 DEF Cut
  <2> QED BY <1>1, <1>2, <2>1 DEF CutState
<1> QED BY <1>3, <1>4, <1>5

(* st[i] is where the client is after i characters.                         *)
Cuts(src, st) ==
  /\ st[0] = CutStart
  /\ \A i \in 1 .. Len(src) : st[i] = Cut(st[i - 1], src[i])
  /\ \A i \in 0 .. Len(src) : st[i] \in CutState

LEMMA SplitIs ==
  ASSUME NEW src \in Text
  PROVE  \E st : /\ Cuts(src, st)
                 /\ split_sql_statements(src) = Kept(st[Len(src)].out, st[Len(src)].cur)
<1> DEFINE n == Len(src)
           D == 0 .. n
           move == [i \in 1 .. n |-> [x \in CutState |-> Cut(x, src[i])]]
           Fits(f) == f = [i \in 0 .. Len(src) |->
                             IF i = 0 THEN [out |-> <<>>, cur |-> <<>>, in_str |-> FALSE]
                             ELSE Cut(f[i - 1], src[i])]
           F == CHOOSE f : Fits(f)
<1>0. n \in Nat /\ \A i \in 1 .. n : src[i] \in Characters
  BY DEF Text
<1>1. CutStart \in CutState
  BY DEF CutStart, CutState, Text
<1>2. \A i \in 1 .. n : \A x \in CutState : move[i][x] = Cut(x, src[i]) /\ move[i][x] \in CutState
  BY <1>0, CutType
<1> HIDE DEF move
<1>3. PICK g : Folds(g, n, CutState, CutStart, move)
  <2> HIDE DEF n
  <2> QED BY <1>0, <1>1, <1>2, FoldExists
<1>4. Fits(g)
  <2>1. \A i \in D : i # 0 => move[i][g[i - 1]] = Cut(g[i - 1], src[i])
    <3>1. \A i \in D : i # 0 => i \in 1 .. n /\ i - 1 \in 0 .. n
      BY <1>0
    <3> HIDE DEF D, n
    <3> QED BY <1>2, <1>3, <3>1 DEF Folds
  <2>2. g = [i \in D |-> IF i = 0 THEN CutStart ELSE move[i][g[i - 1]]]
    BY <1>3 DEF Folds
  <2>3. [i \in D |-> IF i = 0 THEN CutStart ELSE move[i][g[i - 1]]]
          = [i \in D |-> IF i = 0 THEN CutStart ELSE Cut(g[i - 1], src[i])]
    <3> HIDE DEF D, n
    <3> QED BY <2>1
  <2> QED BY <2>2, <2>3 DEF CutStart
<1>5. Fits(F)
  <2> HIDE DEF Fits
  <2> QED BY <1>4
<1>6. \A i \in D : F[i] = IF i = 0 THEN CutStart ELSE Cut(F[i - 1], src[i])
  <2> HIDE DEF F
  <2>1. F = [i \in D |-> IF i = 0 THEN CutStart ELSE Cut(F[i - 1], src[i])]
    BY <1>5 DEF CutStart
  <2> HIDE DEF D
  <2> QED BY <2>1
<1>7. split_sql_statements(src) = Kept(F[Len(src)].out, F[Len(src)].cur)
  BY DEF split_sql_statements
<1> HIDE DEF F
<1>8. F[0] = CutStart /\ \A i \in 1 .. n : F[i] = Cut(F[i - 1], src[i])
  <2>1. 0 \in D /\ \A i \in 1 .. n : i \in D /\ i # 0
    BY <1>0
  <2> HIDE DEF D, n
  <2> QED BY <1>6, <2>1
<1>9. \A i \in 0 .. n : F[i] \in CutState
  <2>1. \A i \in 1 .. n : F[i - 1] \in CutState => F[i] \in CutState
    BY <1>0, <1>8, CutType
  <2> HIDE DEF n
  <2> QED BY <1>0, <1>1, <1>8, <2>1, FoldStays
<1>10. Cuts(src, F)
  BY <1>8, <1>9 DEF Cuts
<1> QED BY <1>7, <1>10

LEMMA BatchType ==
  ASSUME NEW src \in Text
  PROVE  Batch(src) \in Seq(Statement)
<1> DEFINE stmts == split_sql_statements(src)
           n == Len(stmts)
           e(i) == flatten_sql(Append(stmts[i], Semicolon))
<1>1. PICK st : Cuts(src, st) /\ stmts = Kept(st[Len(src)].out, st[Len(src)].cur)
  BY SplitIs
<1>2. stmts \in Seq(Text)
  <2>1. Len(src) \in 0 .. Len(src)
    BY DEF Text
  <2>2. st[Len(src)].out \in Seq(Text) /\ st[Len(src)].cur \in Text
    BY <1>1, <2>1 DEF Cuts, CutState
  <2> QED BY <1>1, <2>2, KeptType
<1> HIDE DEF stmts
<1>3. \A i \in 1 .. n : e(i) \in Statement
  <2> TAKE i \in 1 .. n
  <2>1. stmts[i] \in Text /\ Semicolon \in Characters
    BY <1>2, CharactersDiffer
  <2>2. Append(stmts[i], Semicolon) \in Text
    BY <2>1, AppendProperties DEF Text
  <2> QED BY <2>2, FlattenIs
<1>4. Batch(src) = [i \in 1 .. n |-> e(i)] /\ n \in Nat
  BY <1>2 DEF Batch, stmts
<1> HIDE DEF e
<1>5. Batch(src) \in [1 .. n -> Statement]
  BY <1>3, <1>4
<1> QED BY <1>4, <1>5

EnterState == [sent : Seq(Statement), buf : Text]
EnterStart == [sent |-> <<>>, buf |-> <<>>]

LEMMA EnterType ==
  ASSUME NEW st \in EnterState, NEW c \in Characters
  PROVE  Enter(st, c) \in EnterState
<1> DEFINE buf == Append(st.buf, c)
<1>1. st.sent \in Seq(Statement) /\ st.buf \in Text
  BY DEF EnterState
<1>2. buf \in Text
  BY <1>1, AppendProperties DEF Text
<1> HIDE DEF buf
<1>3. Append(st.sent, flatten_sql(buf)) \in Seq(Statement) /\ <<>> \in Text
  BY <1>1, <1>2, FlattenIs, AppendProperties DEF Text
<1>4. Enter(st, c) = IF c = Newline /\ Contains(buf, Semicolon)
                     THEN [sent |-> Append(st.sent, flatten_sql(buf)), buf |-> <<>>]
                     ELSE [st EXCEPT !.buf = buf]
  BY DEF Enter, buf
<1>5. [sent |-> Append(st.sent, flatten_sql(buf)), buf |-> <<>>] \in EnterState
  BY <1>3 DEF EnterState
<1>6. [st EXCEPT !.buf = buf] \in EnterState
  BY <1>1, <1>2 DEF EnterState
<1> QED BY <1>4, <1>5, <1>6

(* st[i] is where the prompt is after i characters.                         *)
Enters(src, st) ==
  /\ st[0] = EnterStart
  /\ \A i \in 1 .. Len(src) : st[i] = Enter(st[i - 1], src[i])
  /\ \A i \in 0 .. Len(src) : st[i] \in EnterState

LEMMA InteractiveIs ==
  ASSUME NEW src \in Text
  PROVE  \E st : /\ Enters(src, st)
                 /\ Interactive(src) = st[Len(src)].sent
<1> DEFINE n == Len(src)
           D == 0 .. n
           move == [i \in 1 .. n |-> [x \in EnterState |-> Enter(x, src[i])]]
           Fits(f) == f = [i \in 0 .. Len(src) |->
                             IF i = 0 THEN [sent |-> <<>>, buf |-> <<>>]
                             ELSE Enter(f[i - 1], src[i])]
           F == CHOOSE f : Fits(f)
<1>0. n \in Nat /\ \A i \in 1 .. n : src[i] \in Characters
  BY DEF Text
<1>1. EnterStart \in EnterState
  BY DEF EnterStart, EnterState, Text
<1>2. \A i \in 1 .. n : \A x \in EnterState : move[i][x] = Enter(x, src[i]) /\ move[i][x] \in EnterState
  BY <1>0, EnterType
<1> HIDE DEF move
<1>3. PICK g : Folds(g, n, EnterState, EnterStart, move)
  <2> HIDE DEF n
  <2> QED BY <1>0, <1>1, <1>2, FoldExists
<1>4. Fits(g)
  <2>1. \A i \in D : i # 0 => move[i][g[i - 1]] = Enter(g[i - 1], src[i])
    <3>1. \A i \in D : i # 0 => i \in 1 .. n /\ i - 1 \in 0 .. n
      BY <1>0
    <3> HIDE DEF D, n
    <3> QED BY <1>2, <1>3, <3>1 DEF Folds
  <2>2. g = [i \in D |-> IF i = 0 THEN EnterStart ELSE move[i][g[i - 1]]]
    BY <1>3 DEF Folds
  <2>3. [i \in D |-> IF i = 0 THEN EnterStart ELSE move[i][g[i - 1]]]
          = [i \in D |-> IF i = 0 THEN EnterStart ELSE Enter(g[i - 1], src[i])]
    <3> HIDE DEF D, n
    <3> QED BY <2>1
  <2> QED BY <2>2, <2>3 DEF EnterStart
<1>5. Fits(F)
  <2> HIDE DEF Fits
  <2> QED BY <1>4
<1>6. \A i \in D : F[i] = IF i = 0 THEN EnterStart ELSE Enter(F[i - 1], src[i])
  <2> HIDE DEF F
  <2>1. F = [i \in D |-> IF i = 0 THEN EnterStart ELSE Enter(F[i - 1], src[i])]
    BY <1>5 DEF EnterStart
  <2> HIDE DEF D
  <2> QED BY <2>1
<1>7. Interactive(src) = F[Len(src)].sent
  BY DEF Interactive
<1> HIDE DEF F
<1>8. F[0] = EnterStart /\ \A i \in 1 .. n : F[i] = Enter(F[i - 1], src[i])
  <2>1. 0 \in D /\ \A i \in 1 .. n : i \in D /\ i # 0
    BY <1>0
  <2> HIDE DEF D, n
  <2> QED BY <1>6, <2>1
<1>9. \A i \in 0 .. n : F[i] \in EnterState
  <2>1. \A i \in 1 .. n : F[i - 1] \in EnterState => F[i] \in EnterState
    BY <1>0, <1>8, EnterType
  <2> HIDE DEF n
  <2> QED BY <1>0, <1>1, <1>8, <2>1, FoldStays
<1>10. Enters(src, F)
  BY <1>8, <1>9 DEF Enters
<1> QED BY <1>7, <1>10

LEMMA InteractiveType ==
  ASSUME NEW src \in Text
  PROVE  Interactive(src) \in Seq(Statement)
<1>1. PICK st : Enters(src, st) /\ Interactive(src) = st[Len(src)].sent
  BY InteractiveIs
<1>2. Len(src) \in 0 .. Len(src)
  BY DEF Text
<1> QED BY <1>1, <1>2 DEF Enters, EnterState

-----------------------------------------------------------------------------
(* The journal as it grows.                                                 *)
AtLineStart(data) == data # <<>> => data[Len(data)] = Newline

LEMMA LinesStay ==
  ASSUME NEW data \in Text, NEW more \in Text, NEW p, NEW line, LineHolds(data, p, line), Len(line) \in Nat
  PROVE  LineHolds(data \o more, p, line)
<1> DEFINE x == data \o more
<1>1. /\ x \in Text /\ Len(x) = Len(data) + Len(more) /\ Len(data) \in Nat /\ Len(more) \in Nat
      /\ \A k \in 1 .. Len(data) : x[k] = data[k]
  BY DEF Text
<1> HIDE DEF x
<1>2. p \in 1 .. Len(data) /\ p + Len(line) - 1 <= Len(data)
  BY DEF LineHolds
<1>3. ASSUME NEW k \in 1 .. Len(line) PROVE x[p + k - 1] = line[k]
  <2>1. p + k - 1 \in 1 .. Len(data)
    BY <1>1, <1>2
  <2>2. data[p + k - 1] = line[k]
    BY DEF LineHolds
  <2> QED BY <1>1, <2>1, <2>2
<1>4. p = 1 \/ x[p - 1] = Newline
  <2>1. p # 1 => p - 1 \in 1 .. Len(data) /\ data[p - 1] = Newline
    BY <1>1, <1>2 DEF LineHolds
  <2> QED BY <1>1, <2>1
<1>5. p \in 1 .. Len(x) /\ p + Len(line) - 1 <= Len(x)
  BY <1>1, <1>2
<1> QED BY <1>3, <1>4, <1>5 DEF LineHolds, x

LEMMA LineAdded ==
  ASSUME NEW data \in Text, NEW line \in Text, AtLineStart(data), line # <<>>
  PROVE  LineHolds(data \o line, Len(data) + 1, line)
<1> DEFINE x == data \o line
           p == Len(data) + 1
<1>1. /\ x \in Text /\ Len(x) = Len(data) + Len(line) /\ Len(data) \in Nat /\ Len(line) \in Nat
      /\ \A k \in 1 .. Len(data) : x[k] = data[k]
      /\ \A k \in 1 .. Len(line) : x[Len(data) + k] = line[k]
  BY DEF Text
<1>2. Len(line) >= 1
  BY <1>1 DEF Text
<1> HIDE DEF x
<1>3. ASSUME NEW k \in 1 .. Len(line) PROVE x[p + k - 1] = line[k]
  <2>1. p + k - 1 = Len(data) + k
    BY <1>1
  <2> QED BY <1>1, <2>1
<1>4. p = 1 \/ x[p - 1] = Newline
  <2>1. p - 1 = Len(data) /\ (p # 1 => Len(data) \in 1 .. Len(data) /\ data # <<>>)
    BY <1>1
  <2> QED BY <1>1, <2>1 DEF AtLineStart
<1>5. p \in 1 .. Len(x) /\ p + Len(line) - 1 <= Len(x)
  BY <1>1, <1>2
<1> HIDE DEF p
<1>6. LineHolds(x, p, line)
  BY <1>3, <1>4, <1>5 DEF LineHolds
<1> QED BY <1>6 DEF x, p

-----------------------------------------------------------------------------
(* The inductive invariant: statements are on one line, and every record    *)
(* that is not torn and not behind a torn one is a line of the journal.     *)
TextTypes ==
  /\ file \in Seq(Typed)
  /\ waiting \in Seq(Statement) /\ executed \in Seq(Statement)
  /\ disk \in Text
  /\ torn \subseteq 1 .. Len(executed)

LinesHold ==
  /\ Len(executed) \notin torn => AtLineStart(disk)
  /\ \A n \in DOMAIN executed :
       Unharmed(n) => \E p : LineHolds(disk, p, JournalLine(n, executed[n]))

JournalHolds == TextTypes /\ LinesHold

LEMMA JournalInit == TextInit => JournalHolds
<1> SUFFICES ASSUME TextInit PROVE JournalHolds
  OBVIOUS
<1>1. file = <<>> /\ waiting = <<>> /\ executed = <<>> /\ disk = <<>> /\ torn = {}
  BY DEF TextInit
<1>2. TextTypes
  BY <1>1 DEF TextTypes, Text
<1>3. LinesHold
  BY <1>1 DEF LinesHold, AtLineStart
<1> QED BY <1>2, <1>3 DEF JournalHolds

LEMMA FileIsText ==
  ASSUME file \in Seq(Typed)
  PROVE  Append(file, Newline) \in Text
<1>1. Typed \subseteq Characters /\ Newline \in Characters
  BY DEF Characters, Typed
<1>2. file \in Seq(Characters)
  BY <1>1, SeqMonotonic
<1> QED BY <1>1, <1>2, AppendProperties DEF Text

LEMMA JournalStep == JournalHolds /\ [TextNext]_textVars => JournalHolds'
<1> SUFFICES ASSUME JournalHolds, [TextNext]_textVars PROVE JournalHolds'
  OBVIOUS
<1>0. /\ file \in Seq(Typed) /\ waiting \in Seq(Statement) /\ executed \in Seq(Statement)
      /\ disk \in Text /\ torn \subseteq 1 .. Len(executed)
  BY DEF JournalHolds, TextTypes
<1>1. ASSUME NEW c \in Typed, Type(c) PROVE JournalHolds'
  <2>1. file' \in Seq(Typed)
    BY <1>0, <1>1, AppendProperties DEF Type
  <2>2. UNCHANGED <<waiting, executed, disk, torn>>
    BY <1>1 DEF Type
  <2> QED BY <2>1, <2>2 DEF JournalHolds, TextTypes, LinesHold, Unharmed
<1>2. ASSUME Submit PROVE JournalHolds'
  <2>1. waiting' \in {Batch(Append(file, Newline)), Interactive(Append(file, Newline))}
        /\ UNCHANGED <<file, executed, disk, torn>>
    BY <1>2 DEF Submit
  <2>2. waiting' \in Seq(Statement)
    BY <1>0, <2>1, FileIsText, BatchType, InteractiveType
  <2> QED BY <2>1, <2>2 DEF JournalHolds, TextTypes, LinesHold, Unharmed
<1>3. ASSUME Refuse PROVE JournalHolds'
  <2>1. waiting # <<>> /\ waiting' = Tail(waiting) /\ UNCHANGED <<file, executed, disk, torn>>
    BY <1>3 DEF Refuse
  <2>2. waiting' \in Seq(Statement)
    BY <1>0, <2>1, HeadTailProperties
  <2> QED BY <2>1, <2>2 DEF JournalHolds, TextTypes, LinesHold, Unharmed
<1>4. ASSUME ExecuteNext PROVE JournalHolds'
  <2> DEFINE s == Head(waiting)
             n == Len(executed) + 1
             line == JournalLine(n, s)
             Torn(k) == disk' = disk \o SubSeq(line, 1, k) /\ torn' = torn \cup {n}
             Whole == disk' = disk \o line /\ torn' = torn
  <2>1. /\ waiting # <<>> /\ executed' = Append(executed, s) /\ waiting' = Tail(waiting) /\ file' = file
        /\ Whole \/ \E k \in 1 .. Len(line) - 1 : Torn(k)
    BY <1>4 DEF ExecuteNext
  <2>2. s \in Statement /\ s \in Text /\ waiting' \in Seq(Statement)
    BY <1>0, <2>1, HeadTailProperties DEF Statement
  <2> HIDE DEF s
  <2>3. /\ executed' \in Seq(Statement) /\ Len(executed') = n /\ n \in Nat /\ Len(executed) \in Nat
        /\ executed'[n] = s /\ \A i \in 1 .. Len(executed) : executed'[i] = executed[i]
        /\ n - 1 = Len(executed) /\ 1 .. Len(executed) \subseteq 1 .. n /\ n \in 1 .. n
        /\ n \notin 1 .. Len(executed)
    BY <1>0, <2>1, <2>2, AppendProperties
  <2> HIDE DEF n
  <2>4. line \in Text /\ Len(line) = n + 4 + Len(s) /\ Len(s) \in Nat /\ line[n + 4 + Len(s)] = Newline
    <3>1. n \in Nat /\ s \in Text /\ line = JournalLine(n, s)
      BY <2>2, <2>3
    <3> HIDE DEF line
    <3>2. Reads(line, n, s)
      BY ONLY <3>1, LineIs
    <3> QED BY ONLY <3>2 DEF Reads
  <2>5. line # <<>> /\ Len(line) \in Nat /\ Len(line) >= 1
    BY <2>3, <2>4
  <2>6. \E more \in Text : disk' = disk \o more
    <3>1. ASSUME NEW k \in 1 .. Len(line) - 1 PROVE SubSeq(line, 1, k) \in Text
      <4>1. \A j \in 1 .. k : line[j] \in Characters
        BY <2>4, <2>5 DEF Text
      <4> QED BY <4>1, SubSeqProperties DEF Text
    <3> QED BY <2>1, <2>4, <3>1
  <2>7. disk' \in Text
    BY <1>0, <2>6, ConcatProperties DEF Text
  <2>8. torn' \subseteq 1 .. n /\ torn \subseteq torn' /\ torn' \subseteq torn \cup {n}
    BY <1>0, <2>1, <2>3
  <2>9. TextTypes'
    BY <1>0, <2>1, <2>2, <2>3, <2>7, <2>8 DEF TextTypes
  <2>10. ASSUME n \notin torn' PROVE disk' = disk \o line /\ AtLineStart(disk')
    <3>1. disk' = disk \o line
      BY <2>1, <2>10
    <3> DEFINE x == disk \o line
    <3>2. Len(x) = Len(disk) + Len(line) /\ Len(disk) \in Nat /\ x[Len(disk) + Len(line)] = line[Len(line)]
      BY <1>0, <2>4, <2>5 DEF Text
    <3>3. x[Len(x)] = Newline
      <4> HIDE DEF x, line
      <4> QED BY <2>4, <3>2
    <3> QED BY <3>1, <3>3 DEF AtLineStart
  <2> HIDE DEF line, Whole, Torn
  <2>11. ASSUME NEW i \in DOMAIN executed', Unharmed(i)'
         PROVE  \E p : LineHolds(disk', p, JournalLine(i, executed'[i]))
    <3>0. i \in 1 .. n /\ i \notin torn' /\ i - 1 \notin torn'
      BY <2>3, <2>11 DEF Unharmed
    <3>1. CASE i = n
      <4>1. disk' = disk \o line
        BY <2>10, <3>0, <3>1
      <4>2. Len(executed) \notin torn
        BY <2>3, <2>8, <3>0, <3>1
      <4>3. AtLineStart(disk)
        BY <4>2 DEF JournalHolds, LinesHold
      <4>4. LineHolds(disk \o line, Len(disk) + 1, line)
        BY <1>0, <2>4, <2>5, <4>3, LineAdded
      <4>5. JournalLine(i, executed'[i]) = line
        BY <2>3, <3>1 DEF line
      <4> QED BY <4>1, <4>4, <4>5
    <3>2. CASE i # n
      <4>1. i \in 1 .. Len(executed) /\ executed'[i] = executed[i] /\ i \in DOMAIN executed
        BY <1>0, <2>3, <3>0, <3>2
      <4>2. Unharmed(i)
        BY <2>8, <3>0 DEF Unharmed
      <4>3. PICK p : LineHolds(disk, p, JournalLine(i, executed[i]))
        BY <4>1, <4>2 DEF JournalHolds, LinesHold
      <4>4. Len(JournalLine(i, executed[i])) \in Nat
        <5>1. i \in Nat /\ executed[i] \in Text
          BY <1>0, <4>1 DEF Statement
        <5>2. JournalLine(i, executed[i]) \in Text
          BY <5>1, LineIs DEF Reads
        <5> QED BY <5>2 DEF Text
      <4>5. PICK more \in Text : disk' = disk \o more
        BY <2>6
      <4> DEFINE old == JournalLine(i, executed[i])
      <4> HIDE DEF old
      <4>6. LineHolds(disk \o more, p, old)
        BY <1>0, <4>3, <4>4, LinesStay DEF old
      <4> QED BY <4>1, <4>5, <4>6 DEF old
    <3> QED BY <3>1, <3>2
  <2>12. LinesHold'
    BY <2>3, <2>10, <2>11 DEF LinesHold
  <2> QED BY <2>9, <2>12 DEF JournalHolds
<1>5. ASSUME UNCHANGED textVars PROVE JournalHolds'
  BY <1>5 DEF textVars, JournalHolds, TextTypes, LinesHold, Unharmed
<1> QED BY <1>1, <1>2, <1>3, <1>4, <1>5 DEF TextNext

(* What the invariant says of a replay.                                     *)
LEMMA HeldIsReplayed == JournalHolds => ReplayReadsExecuted
<1> SUFFICES ASSUME JournalHolds, NEW n \in DOMAIN executed, Unharmed(n)
             PROVE  \E i \in {i \in DOMAIN Records(disk) :
                               Records(disk)[i].ts = Stamp(n) /\ Records(disk)[i].db = <<Letter>>} :
                      Closed(executed[n]) /\ <<"bad", <<Bar>>>> \notin Range(Lex(executed[n]))
                        => Replay(Records(disk)[i]) = Barless(Execution(executed[n]))
  BY DEF ReplayReadsExecuted
<1> DEFINE s == executed[n]
<1>1. executed \in Seq(Statement) /\ disk \in Text
  BY DEF JournalHolds, TextTypes
<1>2. n \in Nat /\ s \in Text /\ Flush(s) /\ NoLines(s, 1)
  BY <1>1 DEF Statement
<1>3. PICK p : LineHolds(disk, p, JournalLine(n, s))
  BY DEF JournalHolds, LinesHold
<1> HIDE DEF s
<1>4. /\ p \in DOMAIN Records(disk)
      /\ Records(disk)[p].ts = Stamp(n) /\ Records(disk)[p].db = <<Letter>>
      /\ Records(disk)[p].sql = sanitize_line(s)
  BY <1>1, <1>2, <1>3, LineIsRead
<1>5. ASSUME Closed(s), <<"bad", <<Bar>>>> \notin Range(Lex(s))
      PROVE  Replay(Records(disk)[p]) = Barless(Execution(s))
  <2> DEFINE x == Lex(s)
  <2>1. x \in Seq(Tokens)
    <3>1. 1 \in 1 .. Len(s) + 2
      BY <1>2 DEF Text
    <3> QED BY <1>2, <3>1, LexType DEF Lex
  <2>2. ASSUME NEW k \in 1 .. Len(x) PROVE FineToken(x[k], {Newline, Bar})
    <3> HIDE DEF x
    <3>1. DOMAIN x = 1 .. Len(x)
      BY <2>1
    <3>2. x[k][1] # "unclosed"
      <4>1. Kinds(x)[k] = x[k][1] /\ k \in DOMAIN Kinds(x)
        BY <3>1 DEF Kinds
      <4>2. "unclosed" \notin Range(Kinds(x))
        BY <1>5 DEF Closed, x
      <4> QED BY <4>1, <4>2 DEF Range
    <3>3. x[k] # <<"bad", <<Bar>>>>
      <4>1. <<"bad", <<Bar>>>> \notin Range(x)
        BY <1>5 DEF x
      <4> QED BY <3>1, <4>1 DEF Range
    <3> QED BY <3>2, <3>3 DEF FineToken
  <2>3. Fine(Lex(s), {Newline, Bar})
    BY <2>2 DEF Fine
  <2> QED BY <1>2, <1>4, <2>3, ReplayIs DEF Replay
<1> QED BY <1>4, <1>5 DEF s

(* A journal brings back what was executed.                                 *)
THEOREM JournalsReplay == TextSpec => []ReplayReadsExecuted
BY JournalInit, JournalStep, HeldIsReplayed, PTL DEF TextSpec

-----------------------------------------------------------------------------
(* Where strings are: a quote changes it, nothing else does.                *)
LEMMA NoStringYet == ASSUME NEW s PROVE ~ InString(s, 1)
<1>1. {j \in 1 .. 1 - 1 : s[j] = Quote} = {}
  OBVIOUS
<1>2. Cardinality({}) = 0
  BY FS_EmptySet
<1> QED BY <1>1, <1>2 DEF InString

LEMMA StringsAlike ==
  ASSUME NEW s, NEW u, NEW i \in Nat, \A j \in 1 .. i - 1 : s[j] = Quote <=> u[j] = Quote
  PROVE  InString(s, i) <=> InString(u, i)
<1>1. {j \in 1 .. i - 1 : s[j] = Quote} = {j \in 1 .. i - 1 : u[j] = Quote}
  OBVIOUS
<1> QED BY <1>1 DEF InString

LEMMA StringGoesOn ==
  ASSUME NEW s, NEW i \in Nat, NEW j \in Nat, i >= 1, i <= j, \A k \in i .. j - 1 : s[k] # Quote
  PROVE  InString(s, j) <=> InString(s, i)
<1>1. {k \in 1 .. j - 1 : s[k] = Quote} = {k \in 1 .. i - 1 : s[k] = Quote}
  <2>1. 1 .. i - 1 \subseteq 1 .. j - 1
    OBVIOUS
  <2>2. ASSUME NEW k \in 1 .. j - 1, s[k] = Quote PROVE k \in 1 .. i - 1
    <3>1. k \notin i .. j - 1
      BY <2>2
    <3> QED BY <3>1
  <2> QED BY <2>1, <2>2
<1> QED BY <1>1 DEF InString

LEMMA NothingTurns ==
  ASSUME NEW s, NEW i \in Nat, i >= 1, s[i] # Quote
  PROVE  InString(s, i + 1) <=> InString(s, i)
<1> DEFINE j == i + 1
<1>1. j \in Nat /\ i <= j /\ \A k \in i .. j - 1 : k = i
  OBVIOUS
<1> HIDE DEF j
<1>2. \A k \in i .. j - 1 : s[k] # Quote
  BY <1>1
<1>3. InString(s, j) <=> InString(s, i)
  BY <1>1, <1>2, StringGoesOn
<1> QED BY <1>3 DEF j

LEMMA QuoteTurns ==
  ASSUME NEW s, NEW i \in Nat, i >= 1, s[i] = Quote
  PROVE  InString(s, i + 1) <=> ~ InString(s, i)
<1> DEFINE A == {k \in 1 .. i - 1 : s[k] = Quote}
           B == {k \in 1 .. (i + 1) - 1 : s[k] = Quote}
<1>1. B = A \cup {i}
  <2>1. 1 .. (i + 1) - 1 = (1 .. i - 1) \cup {i}
    OBVIOUS
  <2> QED BY <2>1
<1>2. i \notin A
  OBVIOUS
<1>3. IsFiniteSet(A)
  <2>1. IsFiniteSet(1 .. i - 1)
    BY FS_Interval
  <2> QED BY <2>1, FS_Subset
<1>4. Cardinality(B) = Cardinality(A) + 1 /\ Cardinality(A) \in Nat
  <2> HIDE DEF A, B
  <2> QED BY <1>1, <1>2, <1>3, FS_AddElement, FS_CardinalityType
<1> DEFINE n == Cardinality(A)
<1>5. (n + 1) % 2 = 1 <=> ~ (n % 2 = 1)
  <2>1. n \in Nat
    BY <1>4
  <2> HIDE DEF n
  <2> QED BY <2>1
<1>6. (InString(s, i + 1) <=> Cardinality(B) % 2 = 1) /\ (InString(s, i) <=> n % 2 = 1)
  BY DEF InString
<1> QED BY <1>4, <1>5, <1>6

(* A stretch that begins outside a string has its strings where it had them. *)
LEMMA StringsMove ==
  ASSUME NEW s, NEW u, NEW d \in Nat, NEW n \in Nat, ~ InString(s, d + 1),
         \A k \in 1 .. n : u[k] = Quote <=> s[k + d] = Quote
  PROVE  \A k \in 1 .. n + 1 : InString(u, k) <=> InString(s, k + d)
<1> DEFINE S == {k \in 0 .. n : InString(u, k + 1) <=> InString(s, (k + 1) + d)}
<1>1. 0 \in S
  <2>1. 0 + 1 = 1 /\ (0 + 1) + d = d + 1
    OBVIOUS
  <2> QED BY <2>1, NoStringYet
<1>2. ASSUME NEW k \in 0 .. n - 1, k \in S PROVE k + 1 \in S
  <2> DEFINE i == k + 1
             j == i + d
  <2>1. i \in 1 .. n /\ i \in Nat /\ j \in Nat /\ i >= 1 /\ j >= 1 /\ (i + 1) + d = j + 1
    OBVIOUS
  <2>2. InString(u, i) <=> InString(s, j)
    BY <1>2
  <2>3. i \in 0 .. n /\ u[i] = Quote <=> s[j] = Quote
    BY <2>1
  <2> HIDE DEF i, j
  <2>4. CASE s[j] = Quote
    <3>1. (InString(u, i + 1) <=> ~ InString(u, i)) /\ (InString(s, j + 1) <=> ~ InString(s, j))
      BY <2>1, <2>3, <2>4, QuoteTurns
    <3>2. i \in S
      BY <2>1, <2>2, <2>3, <3>1
    <3> QED BY <3>2 DEF i
  <2>5. CASE s[j] # Quote
    <3>1. (InString(u, i + 1) <=> InString(u, i)) /\ (InString(s, j + 1) <=> InString(s, j))
      BY <2>1, <2>3, <2>5, NothingTurns
    <3>2. i \in S
      BY <2>1, <2>2, <2>3, <3>1
    <3> QED BY <3>2 DEF i
  <2> QED BY <2>4, <2>5
<1>3. 0 .. n \subseteq S
  <2> HIDE DEF S
  <2> QED BY <1>1, <1>2, UpTo
<1>4. ASSUME NEW k \in 1 .. n + 1 PROVE InString(u, k) <=> InString(s, k + d)
  <2>1. k - 1 \in 0 .. n /\ (k - 1) + 1 = k
    OBVIOUS
  <2> QED BY <1>3, <2>1
<1> QED BY <1>4

LEMMA CloseInside ==
  ASSUME NEW s \in Text, NEW m \in 0 .. Len(s), NEW i \in 1 .. m,
         s[i] = Quote, ~ InString(s, i), ~ InString(s, m + 1)
  PROVE  Close(s, i) \in i + 1 .. m /\ ~ InString(s, Close(s, i) + 1)
<1> DEFINE c == Close(s, i)
           p == i + 1
<1>0. i \in Nat /\ i >= 1 /\ m \in Nat /\ m <= Len(s) /\ Len(s) \in Nat /\ i \in 1 .. Len(s) /\ p \in Nat /\ p >= 1
  BY DEF Text
<1>1. Ends(s, p, {Quote}, c)
  BY <1>0, CloseIs
<1> HIDE DEF c
<1>2. InString(s, p)
  BY <1>0, QuoteTurns
<1>3. c <= m
  <2> SUFFICES ASSUME ~ (c <= m) PROVE FALSE
    OBVIOUS
  <2> DEFINE e == m + 1
  <2>1. e \in Nat /\ p <= e /\ e <= c
    BY <1>0, <1>1 DEF Ends
  <2>2. \A k \in p .. e - 1 : s[k] # Quote
    <3>1. \A k \in p .. e - 1 : k \in p .. c - 1
      BY <1>0, <1>1, <2>1 DEF Ends
    <3> HIDE DEF e, p
    <3> QED BY <1>1, <3>1 DEF Ends
  <2>3. ~ InString(s, e)
    OBVIOUS
  <2> HIDE DEF e, p
  <2> QED BY <1>0, <1>2, <2>1, <2>2, <2>3, StringGoesOn
<1>4. c \in p .. m /\ c \in Nat /\ c >= 1 /\ s[c] = Quote /\ p <= c
  BY <1>0, <1>1, <1>3 DEF Ends
<1>5. InString(s, c)
  <2>1. \A k \in p .. c - 1 : s[k] # Quote
    BY <1>1 DEF Ends
  <2> HIDE DEF p
  <2> QED BY <1>0, <1>2, <1>4, <2>1, StringGoesOn
<1>6. ~ InString(s, c + 1)
  BY <1>4, <1>5, QuoteTurns
<1> QED BY <1>4, <1>6 DEF c

(* Up to m there is no comment, and no string is left open.                 *)
Calm(s, m) ==
  /\ ~ InString(s, m + 1)
  /\ \A j \in 1 .. m : ~ InString(s, j) => ~ IsComment(s, j)

(* The lexer is outside of strings whenever it begins a token.              *)
LEMMA CalmAfter ==
  ASSUME NEW s \in Text, NEW m \in 0 .. Len(s), NEW i \in 1 .. m, Calm(s, m), ~ InString(s, i)
  PROVE  /\ ~ InString(s, After(s, i)) /\ ~ IsComment(s, i)
         /\ s[i] = Quote => Close(s, i) \in i + 1 .. m
<1>0. i \in Nat /\ i >= 1 /\ m \in Nat /\ m <= Len(s) /\ Len(s) \in Nat /\ i \in 1 .. Len(s) /\ s[i] \in Characters
  BY DEF Text
<1>1. ~ IsComment(s, i) /\ ~ InString(s, m + 1)
  BY DEF Calm
<1>2. CASE s[i] = Quote
  <2>1. Close(s, i) \in i + 1 .. m /\ ~ InString(s, Close(s, i) + 1)
    BY <1>1, <1>2, CloseInside
  <2>2. After(s, i) = Close(s, i) + 1
    BY <1>0, <1>2, LexAtIs
  <2> QED BY <1>1, <2>1, <2>2
<1>3. CASE s[i] = Letter
  <2> DEFINE c == WordEnd(s, i)
  <2>1. Ends(s, i, Characters \ {Letter}, c)
    BY <1>0, WordEndIs
  <2> HIDE DEF c
  <2>2. c \in Nat /\ i <= c /\ c <= Len(s) + 1
    BY <1>0, <2>1 DEF Ends
  <2>3. ASSUME NEW k \in i .. c - 1 PROVE s[k] # Quote
    <3>1. k \in 1 .. Len(s)
      BY <1>0, <2>2
    <3>2. s[k] = Letter
      BY <2>1, <3>1 DEF Ends, Text
    <3> QED BY <3>2, CharactersDiffer
  <2>4. ~ InString(s, c)
    BY <1>0, <2>2, <2>3, StringGoesOn
  <2>5. After(s, i) = c
    BY <1>0, <1>3, LexAtIs DEF c
  <2> QED BY <1>1, <1>3, <2>4, <2>5, CharactersDiffer
<1>4. CASE s[i] # Quote /\ s[i] # Letter
  <2>1. After(s, i) = i + 1
    <3>1. s[i] \in White \/ s[i] = Semicolon \/ s[i] \in {Bar, Digit, Dash}
      BY <1>0, <1>4, CharactersDiffer
    <3>2. s[i] \in {Bar, Digit, Dash} => IsBad(s, i)
      BY <1>1 DEF IsBad
    <3> QED BY <1>0, <3>1, <3>2, LexAtIs
  <2>2. ~ InString(s, i + 1)
    BY <1>0, <1>4, NothingTurns
  <2> QED BY <1>1, <1>4, <2>1, <2>2
<1> QED BY <1>2, <1>3, <1>4

(* The kinds of tokens in a text with closed strings.                       *)
Whole == {"string", "name", "bad"}

LEMMA LexAtIn ==
  ASSUME NEW s \in Text, NEW i \in 1 .. Len(s), NEW K \in SUBSET TokenKinds, Whole \subseteq K,
         s[i] = Semicolon => "semicolon" \in K, s[i] = Quote => Close(s, i) <= Len(s)
  PROVE  LexAt(s, i) \in Seq(K \X Text)
<1>1. LexAt(s, i) = <<>> \/ \E t \in Tokens : LexAt(s, i) = <<t>>
  BY LexAtOne
<1>2. ASSUME NEW t \in Tokens, LexAt(s, i) = <<t>> PROVE t[1] \in K
  <2>1. LexAt(s, i) # <<>> /\ LexAt(s, i)[1] = t
    BY <1>2
  <2> DEFINE l == LexAt(s, i)
  <2>2. s[i] \in Characters
    BY DEF Text
  <2>3. CASE s[i] = Quote
    <3> DEFINE w == SubSeq(s, i + 1, Close(s, i) - 1)
    <3>1. Close(s, i) <= Len(s) /\ Close(s, i) \in Int /\ Len(s) \in Int
      <4>1. Ends(s, i + 1, {Quote}, Close(s, i))
        BY CloseIs
      <4> QED BY <2>3, <4>1 DEF Ends, Text
    <3>2. l = <<<<IF Close(s, i) > Len(s) THEN "unclosed" ELSE "string", w>>>>
      BY <2>3, LexAtIs
    <3>3. ~ (Close(s, i) > Len(s))
      BY <3>1
    <3> HIDE DEF w, l
    <3>4. l = <<<<"string", w>>>>
      BY <3>2, <3>3
    <3>5. l[1][1] = "string"
      BY <3>4
    <3> QED BY <2>1, <3>5 DEF Whole, l
  <2>4. CASE s[i] = Letter
    <3> DEFINE w == SubSeq(s, i, WordEnd(s, i) - 1)
    <3>1. l = <<<<"name", w>>>>
      BY <2>4, LexAtIs
    <3> HIDE DEF w, l
    <3>2. l[1][1] = "name"
      BY <3>1
    <3> QED BY <2>1, <3>2 DEF Whole, l
  <2>5. CASE s[i] = Semicolon
    <3>1. l = <<<<"semicolon", <<>>>>>>
      BY <2>5, LexAtIs
    <3> HIDE DEF l
    <3>2. l[1][1] = "semicolon"
      BY <3>1
    <3> QED BY <2>1, <2>5, <3>2 DEF l
  <2>6. CASE s[i] \in White \/ IsComment(s, i)
    <3>1. l = <<>>
      BY <2>6, LexAtIs
    <3> QED BY <2>1, <3>1
  <2>7. CASE IsBad(s, i)
    <3>1. l = <<<<"bad", <<s[i]>>>>>>
      BY <2>7, LexAtIs
    <3> HIDE DEF l
    <3>2. l[1][1] = "bad"
      BY <3>1
    <3> QED BY <2>1, <3>2 DEF Whole, l
  <2>8. s[i] \in {Bar, Digit, Dash} \/ s[i] \in White \/ s[i] \in {Quote, Letter, Semicolon}
    BY <2>2, CharactersDiffer
  <2>9. s[i] \in {Bar, Digit, Dash} => IsBad(s, i) \/ IsComment(s, i)
    BY DEF IsBad
  <2> QED BY <2>3, <2>4, <2>5, <2>6, <2>7, <2>8, <2>9
<1>3. ASSUME NEW t \in Tokens, LexAt(s, i) = <<t>> PROVE LexAt(s, i) \in Seq(K \X Text)
  <2>1. t \in K \X Text
    BY <1>2, <1>3 DEF Tokens
  <2> QED BY <1>3, <2>1
<1>4. CASE LexAt(s, i) = <<>>
  <2> DEFINE P == K \X Text
  <2>1. <<>> \in Seq(P)
    OBVIOUS
  <2> QED BY <1>4, <2>1
<1> QED BY <1>1, <1>3, <1>4

LEMMA Associative ==
  ASSUME NEW x \in Seq(Tokens), NEW y \in Seq(Tokens), NEW z \in Seq(Tokens)
  PROVE  x \o (y \o z) = (x \o y) \o z
OBVIOUS

(* No statement ends from a to m.                                           *)
NoEnd(s, a, m) == \A j \in a .. m : ~ InString(s, j) => s[j] # Semicolon

SameTokens(s, u, d, i, m, K) ==
  \E x \in Seq(K \X Text) : /\ LexFrom(s)[i] = x \o LexFrom(s)[m + 1]
                             /\ LexFrom(u)[i + d] = x \o LexFrom(u)[(m + 1) + d]

(* Two texts that are the same from a to m have the same tokens there.      *)
LEMMA Along ==
  ASSUME NEW s \in Text, NEW u \in Text, NEW d, NEW a, NEW m, Matches(s, u, d, a, m, {}), Calm(s, m),
         NEW K \in SUBSET TokenKinds, Whole \subseteq K,
         "semicolon" \in K \/ NoEnd(s, a, m),
         NEW i \in a .. m + 1, ~ InString(s, i)
  PROVE  SameTokens(s, u, d, i, m, K)
<1> DEFINE n == Len(s)
           e == m + 1
           Y == LexFrom(s)[e]
           Z == LexFrom(u)[e + d]
           Goal(k) == \E x \in Seq(K \X Text) : LexFrom(s)[k] = x \o Y /\ LexFrom(u)[k + d] = x \o Z
           S == {k \in 1 .. n + 2 : k \in a .. e /\ ~ InString(s, k) => Goal(k)}
<1>0. /\ n \in Nat /\ Len(u) \in Nat /\ d \in Int /\ m \in Nat /\ m <= n /\ m + d <= Len(u)
      /\ a \in Nat /\ a >= 1 /\ a <= m + 1 /\ a + d >= 1 /\ m \in 0 .. n
  <2>1. m \in 0 .. n
    BY DEF Matches
  <2> QED BY <2>1, Placed
<1>1. Y \in Seq(Tokens) /\ Z \in Seq(Tokens)
  <2>1. e \in 1 .. n + 2 /\ e + d \in 1 .. Len(u) + 2
    BY <1>0
  <2> HIDE DEF e
  <2> QED BY <2>1, LexType
<1>2. Goal(e)
  <2>1. <<>> \in Seq(K \X Text) /\ <<>> \o Y = Y /\ <<>> \o Z = Z
    BY <1>1, ConcatEmptySeq
  <2> HIDE DEF Y, Z
  <2> QED BY <2>1 DEF Y, Z
<1> HIDE DEF Y, Z
<1>3. n + 1 \in S /\ n + 2 \in S
  <2>1. n + 1 \in 1 .. n + 2 /\ n + 2 \in 1 .. n + 2 /\ n + 2 \notin a .. e
        /\ (n + 1 \in a .. e => n + 1 = e)
    BY <1>0
  <2> HIDE DEF Goal, e
  <2> QED BY <1>2, <2>1
<1>4. ASSUME NEW k \in 1 .. n, k + 1 .. n + 2 \subseteq S PROVE k \in S
  <2> SUFFICES ASSUME k \in a .. e, ~ InString(s, k), k # e PROVE Goal(k)
    <3>1. k \in 1 .. n + 2
      BY <1>0
    <3> HIDE DEF Goal, e
    <3> QED BY <1>2, <3>1
  <2> DEFINE j == k + d
             h == After(s, k)
             x == LexAt(s, k)
  <2>1. k \in a .. m /\ k \in 1 .. m /\ j \in 1 .. Len(u)
    BY <1>0
  <2>2. ~ InString(s, h) /\ ~ IsComment(s, k) /\ (s[k] = Quote => Close(s, k) <= m)
    <3>1. ~ InString(s, h) /\ ~ IsComment(s, k) /\ (s[k] = Quote => Close(s, k) \in k + 1 .. m)
      BY <1>0, <2>1, CalmAfter
    <3> QED BY <1>0, <3>1
  <2>3. LexAt(u, j) = Blanked(x, {}) /\ After(u, j) = h + d /\ h \in k + 1 .. m + 1
    BY <2>1, <2>2, SameToken
  <2>4. x \in Seq(K \X Text)
    <3>1. s[k] = Quote => Close(s, k) <= Len(s)
      <4>1. s[k] = Quote => Close(s, k) \in Int
        <5>1. Ends(s, k + 1, {Quote}, Close(s, k))
          BY CloseIs
        <5> QED BY <5>1 DEF Ends
      <4> QED BY <1>0, <2>2, <4>1
    <3>2. s[k] = Semicolon => "semicolon" \in K
      BY <2>1 DEF NoEnd
    <3> QED BY <3>1, <3>2, LexAtIn
  <2>5. Blanked(x, {}) = x
    BY LexAtType, BlankedNone
  <2>6. Goal(h)
    <3>1. h \in k + 1 .. n + 2 /\ h \in a .. e
      BY <1>0, <2>1, <2>3
    <3> HIDE DEF Goal, e, h
    <3> QED BY <1>4, <2>2, <3>1
  <2>7. PICK y \in Seq(K \X Text) : LexFrom(s)[h] = y \o Y /\ LexFrom(u)[h + d] = y \o Z
    BY <2>6
  <2>8. LexFrom(s)[k] = x \o LexFrom(s)[h]
    BY LexJumps
  <2>9. LexFrom(u)[j] = x \o LexFrom(u)[h + d]
    BY <2>1, <2>3, <2>5, LexJumps
  <2> HIDE DEF x, h, j
  <2>10. x \o y \in Seq(K \X Text)
    BY <2>4, <2>7, ConcatProperties
  <2>11. x \o (y \o Y) = (x \o y) \o Y /\ x \o (y \o Z) = (x \o y) \o Z
    <3>1. x \in Seq(Tokens) /\ y \in Seq(Tokens)
      <4>1. K \X Text \subseteq Tokens
        BY DEF Tokens
      <4> QED BY <2>4, <2>7, <4>1, SeqMonotonic
    <3>2. x \o (y \o Y) = (x \o y) \o Y
      BY ONLY <1>1, <3>1, Associative
    <3>3. x \o (y \o Z) = (x \o y) \o Z
      BY ONLY <1>1, <3>1, Associative
    <3> QED BY <3>2, <3>3
  <2> QED BY <2>7, <2>8, <2>9, <2>10, <2>11 DEF j
<1>5. 1 .. n + 2 \subseteq S
  <2> HIDE DEF n, S
  <2> QED BY <1>0, <1>3, <1>4, FromTheEnd
<1>6. Goal(i)
  <2>1. i \in 1 .. n + 2 /\ i \in a .. e
    BY <1>0
  <2> HIDE DEF Goal
  <2> QED BY <1>5, <2>1
<1> QED BY <1>6 DEF Y, Z, SameTokens

-----------------------------------------------------------------------------
(* A piece of a text in which no statement ends, outside of strings where   *)
(* it begins and where it ends.                                             *)
Piece(c, b, e) ==
  /\ e \in 0 .. Len(c) /\ b \in 0 .. e
  /\ ~ InString(c, b + 1) /\ Calm(c, e)
  /\ e < Len(c) => c[e + 1] \in Edge
  /\ NoEnd(c, b + 1, e)

LEMMA PieceIs ==
  ASSUME NEW c \in Text, NEW b, NEW e, Piece(c, b, e)
  PROVE  /\ b \in Nat /\ e \in Nat /\ b <= e /\ e <= Len(c) /\ Len(c) \in Nat
         /\ SubSeq(c, b + 1, e) \in Text /\ Len(SubSeq(c, b + 1, e)) = e - b
         /\ \A k \in 1 .. e - b : SubSeq(c, b + 1, e)[k] = c[k + b]
<1>1. b \in Nat /\ e \in Nat /\ b <= e /\ e <= Len(c) /\ Len(c) \in Nat
  BY DEF Piece, Text
<1> DEFINE p == b + 1
<1>2. p \in Int /\ e \in Int /\ \A k \in p .. e : c[k] \in Characters
  BY <1>1 DEF Text
<1>3. /\ SubSeq(c, p, e) \in Seq(Characters)
      /\ Len(SubSeq(c, p, e)) = IF p <= e THEN e - p + 1 ELSE 0
      /\ \A k \in 1 .. e - p + 1 : SubSeq(c, p, e)[k] = c[p + k - 1]
  <2> HIDE DEF p
  <2> QED BY <1>2, SubSeqProperties
<1>4. (IF p <= e THEN e - p + 1 ELSE 0) = e - b /\ e - p + 1 = e - b
  BY <1>1
<1>5. \A k \in 1 .. e - b : p + k - 1 = k + b
  BY <1>1
<1> HIDE DEF p
<1>6. \A k \in 1 .. e - b : SubSeq(c, p, e)[k] = c[k + b]
  BY <1>3, <1>4, <1>5
<1> QED BY <1>1, <1>3, <1>4, <1>6 DEF p, Text

LEMMA PieceCalm ==
  ASSUME NEW c \in Text, NEW b, NEW e, Piece(c, b, e)
  PROVE  /\ Calm(SubSeq(c, b + 1, e), Len(SubSeq(c, b + 1, e)))
         /\ Matches(c, SubSeq(c, b + 1, e), - b, b + 1, e, {})
<1> DEFINE v == SubSeq(c, b + 1, e)
           n == e - b
<1>1. /\ b \in Nat /\ e \in Nat /\ b <= e /\ e <= Len(c) /\ Len(c) \in Nat
      /\ v \in Text /\ Len(v) = n /\ \A k \in 1 .. n : v[k] = c[k + b]
  BY PieceIs
<1> HIDE DEF v
<1>2. \A k \in 1 .. n + 1 : InString(v, k) <=> InString(c, k + b)
  <2>1. n \in Nat
    BY <1>1
  <2>2. ~ InString(c, b + 1) /\ \A k \in 1 .. n : v[k] = Quote <=> c[k + b] = Quote
    BY <1>1 DEF Piece
  <2> HIDE DEF n
  <2> QED BY <1>1, <2>1, <2>2, StringsMove
<1>3. ~ InString(v, n + 1)
  <2>1. n + 1 \in 1 .. n + 1 /\ (n + 1) + b = e + 1
    BY <1>1
  <2>2. ~ InString(c, e + 1)
    BY DEF Piece, Calm
  <2> HIDE DEF n
  <2> QED BY <1>2, <2>1, <2>2
<1>4. ASSUME NEW j \in 1 .. n, ~ InString(v, j) PROVE ~ IsComment(v, j)
  <2> SUFFICES ASSUME IsComment(v, j) PROVE FALSE
    OBVIOUS
  <2> DEFINE i == j + b
  <2>1. j \in 1 .. n + 1 /\ i \in 1 .. e
    BY <1>1
  <2>2. ~ InString(c, i)
    <3> HIDE DEF n
    <3> QED BY <1>2, <1>4, <2>1
  <2>3. v[j] = Dash /\ j < n /\ v[j + 1] = Dash
    BY <1>1 DEF IsComment
  <2>4. j + 1 \in 1 .. n /\ (j + 1) + b = i + 1 /\ i < Len(c)
    BY <1>1, <2>3
  <2>5. c[i] = Dash /\ c[i + 1] = Dash
    <3>1. v[j] = c[j + b] /\ v[j + 1] = c[(j + 1) + b]
      <4> HIDE DEF n
      <4> QED BY <1>1, <2>4
    <3> QED BY <2>3, <2>4, <3>1
  <2>6. IsComment(c, i)
    BY <2>4, <2>5 DEF IsComment
  <2> HIDE DEF i
  <2> QED BY <2>1, <2>2, <2>6 DEF Piece, Calm
<1>5. Calm(v, n)
  BY <1>3, <1>4 DEF Calm
<1>6. Matches(c, v, - b, b + 1, e, {})
  <2>1. /\ - b \in Int /\ e \in 0 .. Len(c) /\ e + (- b) \in 0 .. Len(v) /\ b + 1 \in 1 .. e + 1
        /\ (b + 1) + (- b) >= 1 /\ ~ (e + (- b) < Len(v))
    BY <1>1
  <2>2. \A i \in b + 1 .. e : v[i + (- b)] = c[i]
    <3> TAKE i \in b + 1 .. e
    <3> DEFINE k == i + (- b)
    <3>1. k \in 1 .. n /\ k + b = i
      BY <1>1
    <3> HIDE DEF k
    <3> QED BY <1>1, <3>1
  <2>3. e < Len(c) => c[e + 1] \in Edge
    BY DEF Piece
  <2> QED BY <2>1, <2>2, <2>3 DEF Matches
<1> QED BY <1>1, <1>5, <1>6 DEF v

(* The tokens of the text there are those of the piece.                     *)
LEMMA PieceTokens ==
  ASSUME NEW c \in Text, NEW b, NEW e, Piece(c, b, e)
  PROVE  /\ Lex(SubSeq(c, b + 1, e)) \in Seq(Whole \X Text)
         /\ LexFrom(c)[b + 1] = Lex(SubSeq(c, b + 1, e)) \o LexFrom(c)[e + 1]
<1> DEFINE v == SubSeq(c, b + 1, e)
<1>1. /\ b \in Nat /\ e \in Nat /\ b <= e /\ e <= Len(c) /\ Len(c) \in Nat
      /\ v \in Text /\ Len(v) = e - b
  BY PieceIs
<1>2. Matches(c, v, - b, b + 1, e, {})
  BY PieceCalm
<1> HIDE DEF v
<1> DEFINE i == b + 1
           d == - b
<1>3. /\ ~ InString(c, i) /\ Calm(c, e) /\ i \in i .. e + 1 /\ Whole \in SUBSET TokenKinds
      /\ NoEnd(c, i, e)
  BY <1>1 DEF Piece, Whole, TokenKinds
<1>4. i + d = 1 /\ (e + 1) + d = Len(v) + 1
  BY <1>1
<1> HIDE DEF i, d
<1>5. PICK x \in Seq(Whole \X Text) : /\ LexFrom(c)[i] = x \o LexFrom(c)[e + 1]
                                       /\ LexFrom(v)[i + d] = x \o LexFrom(v)[(e + 1) + d]
  <2>1. Matches(c, v, d, i, e, {})
    BY <1>2 DEF i, d
  <2> DEFINE K == Whole
  <2>2. /\ K \in SUBSET TokenKinds /\ Whole \subseteq K
        /\ "semicolon" \in K \/ NoEnd(c, i, e)
    BY <1>3
  <2> HIDE DEF K
  <2>3. SameTokens(c, v, d, i, e, K)
    BY <1>1, <1>3, <2>1, <2>2, Along
  <2> QED BY <2>3 DEF K, SameTokens
<1>6. Lex(v) = x
  <2>1. LexFrom(v)[Len(v) + 1] = <<>>
    BY <1>1, LexJumps
  <2>2. LexFrom(v)[1] = x \o <<>>
    BY <1>4, <1>5, <2>1
  <2> QED BY <2>2, ConcatEmptySeq DEF Lex
<1> QED BY <1>5, <1>6 DEF v, i

(* White space has no tokens.                                               *)
LEMMA WhiteStep ==
  ASSUME NEW s \in Text, NEW i \in 1 .. Len(s), s[i] \in White
  PROVE  LexFrom(s)[i] = LexFrom(s)[i + 1]
<1>1. LexAt(s, i) = <<>> /\ After(s, i) = i + 1
  BY LexAtIs
<1> DEFINE y == LexFrom(s)[i + 1]
<1>2. LexFrom(s)[i] = <<>> \o y
  BY <1>1, LexJumps
<1>3. y \in Seq(Tokens)
  <2> DEFINE j == i + 1
  <2>1. j \in 1 .. Len(s) + 2
    BY DEF Text
  <2> HIDE DEF j
  <2>2. LexFrom(s)[j] \in Seq(Tokens)
    BY <2>1, LexType
  <2> QED BY <2>2 DEF j
<1> HIDE DEF y
<1>4. <<>> \o y = y
  BY <1>3, ConcatEmptySeq
<1> QED BY <1>2, <1>4 DEF y

LEMMA WhiteSkipped ==
  ASSUME NEW s \in Text, NEW p \in 1 .. Len(s) + 1, \A k \in 1 .. p - 1 : s[k] \in White
  PROVE  Lex(s) = LexFrom(s)[p]
<1> DEFINE n == p - 1
           S == {k \in 0 .. n : Lex(s) = LexFrom(s)[k + 1]}
<1>0. p \in Nat /\ n \in Nat /\ Len(s) \in Nat /\ p <= Len(s) + 1
  BY DEF Text
<1>1. 0 \in S
  <2>1. 0 + 1 = 1 /\ 0 \in 0 .. n
    BY <1>0
  <2> QED BY <2>1 DEF Lex
<1>2. ASSUME NEW k \in 0 .. n - 1, k \in S PROVE k + 1 \in S
  <2> DEFINE i == k + 1
  <2>1. i \in 1 .. Len(s) /\ i \in 1 .. p - 1 /\ i \in 0 .. n
    BY <1>0
  <2>2. Lex(s) = LexFrom(s)[i]
    BY <1>2
  <2> HIDE DEF i, n
  <2>3. LexFrom(s)[i] = LexFrom(s)[i + 1]
    BY <2>1, WhiteStep
  <2>4. i \in S
    BY <2>1, <2>2, <2>3
  <2> QED BY <2>4 DEF i
<1>3. 0 .. n \subseteq S
  <2> HIDE DEF S, n
  <2> QED BY <1>0, <1>1, <1>2, UpTo
<1>4. n \in S /\ n + 1 = p
  <2>1. n \in 0 .. n /\ n + 1 = p
    BY <1>0
  <2> HIDE DEF S, n
  <2> QED BY <1>3, <2>1
<1> QED BY <1>4

(* A text without comments whose strings are closed.                        *)
LEMMA ClosedCalm ==
  ASSUME NEW s \in Text, Comments(s) = {}, Closed(s)
  PROVE  Calm(s, Len(s))
<1> DEFINE n == Len(s)
<1>0. n \in Nat
  BY DEF Text
<1>1. ASSUME NEW j \in 1 .. n, ~ InString(s, j) PROVE ~ IsComment(s, j)
  <2> SUFFICES ASSUME IsComment(s, j) PROVE FALSE
    OBVIOUS
  <2>1. j \in 1 .. n - 1 /\ s[j] = Dash /\ s[j + 1] = Dash
    BY <1>0 DEF IsComment
  <2>2. j \in Comments(s)
    BY <1>1, <2>1 DEF Comments
  <2> QED BY <2>2
<1>2. SUFFICES ASSUME InString(s, n + 1) PROVE FALSE
  BY <1>1 DEF Calm
<1> DEFINE Q == {k \in 1 .. n : s[k] = Quote}
<1>3. Q # {}
  <2> SUFFICES ASSUME Q = {} PROVE FALSE
    OBVIOUS
  <2>1. \A k \in 1 .. (n + 1) - 1 : s[k] # Quote
    BY <1>0
  <2>2. 1 \in Nat /\ 1 >= 1 /\ n + 1 \in Nat /\ 1 <= n + 1
    BY <1>0
  <2>3. InString(s, n + 1) <=> InString(s, 1)
    <3> DEFINE j == n + 1
    <3> HIDE DEF j, n
    <3>1. \A k \in 1 .. j - 1 : s[k] # Quote
      BY <2>1 DEF j
    <3>2. InString(s, j) <=> InString(s, 1)
      BY <2>2, <3>1, StringGoesOn DEF j
    <3> QED BY <3>2 DEF j
  <2> QED BY <1>2, <2>3, NoStringYet
<1>4. PICK q \in Q : \A k \in Q : k <= q
  <2>1. Q \in SUBSET (0 .. n)
    BY <1>0
  <2> HIDE DEF Q
  <2> QED BY <1>0, <1>3, <2>1, GreatestNumber
<1>5. q \in 1 .. n /\ q \in Nat /\ q >= 1 /\ q <= n /\ s[q] = Quote
  BY <1>0, <1>4
<1>6. \A k \in q + 1 .. n : s[k] # Quote
  <2> SUFFICES ASSUME NEW k \in q + 1 .. n, s[k] = Quote PROVE FALSE
    OBVIOUS
  <2>1. k \in Q /\ ~ (k <= q)
    BY <1>5
  <2> HIDE DEF Q
  <2> QED BY <1>4, <2>1
<1> HIDE DEF Q
<1>7. ~ InString(s, q)
  <2> DEFINE i == q + 1
             j == n + 1
  <2>1. i \in Nat /\ j \in Nat /\ i >= 1 /\ i <= j /\ j - 1 = n
    BY <1>0, <1>5
  <2>2. \A k \in i .. j - 1 : s[k] # Quote
    BY <1>6, <2>1
  <2>3. InString(s, i) <=> ~ InString(s, q)
    BY <1>5, QuoteTurns
  <2>4. InString(s, j)
    BY <1>2
  <2> HIDE DEF i, j, n
  <2>5. InString(s, j) <=> InString(s, i)
    BY <2>1, <2>2, StringGoesOn
  <2> QED BY <2>3, <2>4, <2>5
<1> DEFINE m == q - 1
<1>8. m \in Nat /\ m + 1 = q /\ m \in 0 .. n /\ 1 \in 1 .. m + 1
  BY <1>0, <1>5
<1>9. Calm(s, m)
  <2>1. \A j \in 1 .. m : j \in 1 .. n
    BY <1>8
  <2> QED BY <1>1, <1>7, <1>8, <2>1 DEF Calm
<1>10. Matches(s, s, 0, 1, m, {})
  <2>1. /\ 0 \in Int /\ m + 0 \in 0 .. Len(s) /\ 1 + 0 >= 1 /\ \A i \in 1 .. m : i + 0 = i
        /\ m + 0 + 1 = q
    BY <1>8
  <2>2. s[q] \in Edge
    BY <1>5 DEF Edge
  <2> QED BY <1>8, <2>1, <2>2 DEF Matches
<1>11. PICK x \in Seq(TokenKinds \X Text) : LexFrom(s)[1] = x \o LexFrom(s)[m + 1]
  <2> DEFINE K == TokenKinds
  <2>1. K \in SUBSET TokenKinds /\ Whole \subseteq K /\ "semicolon" \in K
    BY DEF Whole, TokenKinds
  <2> HIDE DEF K, m
  <2>2. SameTokens(s, s, 0, 1, m, K)
    BY <1>8, <1>9, <1>10, <2>1, NoStringYet, Along
  <2> QED BY <2>2 DEF SameTokens, K
<1> DEFINE t == <<"unclosed", SubSeq(s, q + 1, Close(s, q) - 1)>>
           y == LexFrom(s)[After(s, q)]
<1>12. Close(s, q) > n
  <2>1. Ends(s, q + 1, {Quote}, Close(s, q))
    BY <1>5, CloseIs
  <2> DEFINE z == Close(s, q)
  <2> HIDE DEF z
  <2>2. z \in q + 1 .. n + 1 /\ (z <= n => s[z] = Quote)
    BY <1>5, <2>1 DEF Ends, z
  <2>3. ~ (z <= n)
    <3>1. z <= n => z \in q + 1 .. n
      BY <1>0, <1>5, <2>2
    <3> QED BY <1>6, <2>2, <3>1
  <2>4. z > n
    BY <1>0, <1>5, <2>2, <2>3
  <2> QED BY <2>4 DEF z
<1>13. LexFrom(s)[q] = <<t>> \o y
  <2>1. LexAt(s, q) = <<t>>
    BY <1>5, <1>12, LexAtIs
  <2> QED BY <1>5, <2>1, LexJumps
<1>14. t \in Tokens /\ t[1] = "unclosed" /\ y \in Seq(Tokens)
  <2>1. LexAt(s, q) = <<t>>
    BY <1>5, <1>12, LexAtIs
  <2>2. LexAt(s, q) \in Seq(Tokens)
    BY <1>5, LexAtType
  <2>3. After(s, q) \in 1 .. Len(s) + 2
    BY <1>5, AfterIs
  <2>4. t \in Tokens
    <3> HIDE DEF t
    <3> QED BY <2>1, <2>2
  <2> QED BY <2>3, <2>4, LexType
<1> HIDE DEF t, y, m
<1> DEFINE X == Lex(s)
           k == Len(x) + 1
<1>15. x \in Seq(Tokens) /\ X \in Seq(Tokens)
  <2>1. TokenKinds \X Text \subseteq Tokens
    BY DEF Tokens
  <2>2. x \in Seq(Tokens)
    BY <1>11, <2>1, SeqMonotonic
  <2>3. 1 \in 1 .. Len(s) + 2
    BY <1>0
  <2>4. LexFrom(s)[1] \in Seq(Tokens)
    BY <2>3, LexType
  <2> QED BY <2>2, <2>4 DEF Lex
<1>16. X = x \o (<<t>> \o y)
  BY <1>8, <1>11, <1>13 DEF Lex
<1>17. k \in 1 .. Len(X) /\ X[k] = t
  <2> DEFINE z == <<t>> \o y
  <2>1. z \in Seq(Tokens) /\ Len(z) >= 1 /\ z[1] = t /\ Len(z) \in Nat
    BY <1>14
  <2> HIDE DEF z
  <2>2. Len(X) = Len(x) + Len(z) /\ Len(x) \in Nat
        /\ \A i \in 1 .. Len(x) + Len(z) : X[i] = IF i <= Len(x) THEN x[i] ELSE z[i - Len(x)]
    <3>1. X = x \o z
      BY <1>16 DEF z
    <3> HIDE DEF X
    <3> QED BY <1>15, <2>1, <3>1, ConcatProperties
  <2>3. k \in 1 .. Len(x) + Len(z) /\ ~ (k <= Len(x)) /\ k - Len(x) = 1
    BY <2>1, <2>2
  <2> HIDE DEF X, k
  <2> QED BY <2>1, <2>2, <2>3
<1> HIDE DEF k
<1>18. "unclosed" \in Range(Kinds(X))
  <2> HIDE DEF X
  <2>1. Kinds(X) \in Seq(TokenKinds) /\ Len(Kinds(X)) = Len(X)
    BY <1>15, KindsType
  <2>2. k \in DOMAIN X /\ k \in DOMAIN Kinds(X)
    BY <1>15, <1>17, <2>1
  <2>3. Kinds(X)[k] = "unclosed"
    BY <1>14, <1>17, <2>2 DEF Kinds
  <2> QED BY <2>2, <2>3 DEF Range
<1> QED BY <1>18 DEF Closed, X

-----------------------------------------------------------------------------
(* What is executed of a request on one line: all of it but for white space *)
(* in front of it, and white space and semicolons behind it.                *)
OnLine(ch) == IF ch = Newline THEN Blank ELSE ch

Stripped(s, u, p, m) ==
  /\ p \in 1 .. Len(s) + 1 /\ m \in 0 .. Len(s) + 1 - p
  /\ u \in Text /\ Len(u) = m + 1 /\ u[m + 1] = Blank
  /\ \A k \in 1 .. m : u[k] = OnLine(s[p + k - 1])
  /\ \A k \in 1 .. p - 1 : s[k] \in White
  /\ \A k \in p + m .. Len(s) : s[k] \in Trail

LEMMA ExecutionIs ==
  ASSUME NEW s \in Text
  PROVE  \E u, p, m : Stripped(s, u, p, m) /\ Execution(flatten_sql(s)) = Seen(Lex(u))
<1> DEFINE r == Replaced(s, {Newline}, Blank)
<1>1. r \in Text /\ Len(r) = Len(s) /\ \A i \in 1 .. Len(s) : r[i] = OnLine(s[i])
  BY ReplacedType DEF OnLine
<1> HIDE DEF r
<1>2. PICK p, q : TrimsTo(r, p, q)
  BY <1>1, TrimIs
<1> DEFINE f == trim(r)
<1>3. flatten_sql(s) = f
  BY DEF flatten_sql, r
<1>4. f \in Text /\ Len(f) = q - p + 1 /\ Flush(f) /\ \A k \in 1 .. q - p + 1 : f[k] = r[p + k - 1]
  BY <1>1, <1>2, TrimmedIs
<1> HIDE DEF f
<1>5. PICK m \in 0 .. Len(f) : /\ Body(f) \in Text /\ Len(Body(f)) = m
                               /\ \A k \in 1 .. m : Body(f)[k] = f[k]
                               /\ \A k \in m + 1 .. Len(f) : f[k] \in Trail
  BY <1>4, BodyIs
<1> DEFINE u == Body(f) \o <<Blank>>
<1>6. u \in Text /\ Len(u) = m + 1 /\ (\A k \in 1 .. m : u[k] = Body(f)[k]) /\ u[m + 1] = Blank
  BY <1>5, BlankAdded
<1>7. Execution(f) = Seen(Lex(u))
  BY DEF Execution
<1> HIDE DEF u
<1>8. /\ Len(s) \in Nat /\ p \in Nat /\ p >= 1 /\ p <= Len(s) + 1 /\ q \in Int /\ q >= p - 1 /\ q <= Len(s)
      /\ m \in Nat /\ m <= q - p + 1
  BY <1>1, <1>2, <1>4 DEF TrimsTo, Text
<1>9. ASSUME NEW k \in 1 .. m PROVE u[k] = OnLine(s[p + k - 1])
  <2>1. k \in 1 .. q - p + 1 /\ p + k - 1 \in 1 .. Len(s)
    BY <1>8
  <2>2. u[k] = r[p + k - 1]
    BY <1>4, <1>5, <1>6, <2>1
  <2> QED BY <1>1, <2>1, <2>2
<1>10. ASSUME NEW k \in 1 .. Len(s), r[k] \in Trail PROVE s[k] \in Trail
  <2>1. r[k] = OnLine(s[k])
    BY <1>1
  <2> QED BY <1>10, <2>1 DEF OnLine, Trail
<1>11. ASSUME NEW k \in 1 .. Len(s), r[k] \in White PROVE s[k] \in White
  <2>1. r[k] = OnLine(s[k])
    BY <1>1
  <2> QED BY <1>11, <2>1, CharactersDiffer DEF OnLine
<1>12. ASSUME NEW k \in 1 .. p - 1 PROVE s[k] \in White
  <2>1. k \in 1 .. Len(s) /\ r[k] \in White
    BY <1>2, <1>8 DEF TrimsTo
  <2> QED BY <1>11, <2>1
<1>13. ASSUME NEW k \in p + m .. Len(s) PROVE s[k] \in Trail
  <2>1. k \in 1 .. Len(s)
    BY <1>8
  <2>2. CASE k <= q
    <3> DEFINE j == k - p + 1
    <3>1. j \in m + 1 .. q - p + 1 /\ j \in 1 .. q - p + 1 /\ p + j - 1 = k
      BY <1>8, <2>2
    <3> HIDE DEF j
    <3>2. f[j] \in Trail /\ f[j] = r[k]
      BY <1>4, <1>5, <3>1
    <3> QED BY <1>10, <2>1, <3>2
  <2>3. CASE ~ (k <= q)
    <3>1. k \in q + 1 .. Len(r)
      BY <1>1, <1>8, <2>3
    <3>2. r[k] \in White
      BY <1>2, <3>1 DEF TrimsTo
    <3>3. r[k] \in Trail
      BY <3>2, CharactersDiffer DEF Trail
    <3> QED BY <1>10, <2>1, <3>3
  <2> QED BY <2>2, <2>3
<1>14. p \in 1 .. Len(s) + 1 /\ m \in 0 .. Len(s) + 1 - p
  BY <1>8
<1>15. Stripped(s, u, p, m)
  BY <1>6, <1>9, <1>12, <1>13, <1>14 DEF Stripped
<1> QED BY <1>3, <1>7, <1>15

(* The text s begins with the text v but for white space around v, and      *)
(* behind that it has nothing a parser looks at.                            *)
Carries(s, v, o, n) ==
  /\ o \in 0 .. Len(v) /\ n \in 0 .. Len(v) - o /\ n <= Len(s)
  /\ \A k \in 1 .. n : s[k] = v[k + o]
  /\ \A k \in 1 .. o : v[k] \in White
  /\ \A k \in o + n + 1 .. Len(v) : v[k] \in White
  /\ \A k \in n + 1 .. Len(s) : s[k] \in Trail

LEMMA NothingCarried ==
  ASSUME NEW s \in Text, NEW v \in Text, NEW o, NEW n, Carries(s, v, o, n),
         NEW u, NEW p, NEW m, Stripped(s, u, p, m), p - 1 > n
  PROVE  Seen(Lex(u)) = <<>> /\ Seen(Lex(v)) = <<>>
<1>1. /\ Len(s) \in Nat /\ Len(v) \in Nat /\ o \in Nat /\ n \in Nat /\ o + n <= Len(v) /\ n <= Len(s)
      /\ p \in Nat /\ p >= 1 /\ p <= Len(s) + 1 /\ m \in Nat /\ m <= Len(s) + 1 - p
      /\ u \in Text /\ Len(u) = m + 1
  BY DEF Carries, Stripped, Text
<1>2. ASSUME NEW k \in 1 .. Len(v) PROVE v[k] \in Trail
  <2>1. CASE k <= o
    <3>1. k \in 1 .. o
      BY <2>1
    <3> QED BY <3>1, CharactersDiffer DEF Carries, Trail
  <2>2. CASE k > o + n
    <3>1. k \in o + n + 1 .. Len(v)
      BY <1>1, <2>2
    <3> QED BY <3>1, CharactersDiffer DEF Carries, Trail
  <2>3. CASE ~ (k <= o) /\ ~ (k > o + n)
    <3> DEFINE j == k - o
    <3>1. j \in 1 .. n /\ j \in 1 .. p - 1 /\ j + o = k
      BY <1>1, <2>3
    <3> HIDE DEF j
    <3>2. s[j] = v[k] /\ s[j] \in White
      BY <3>1 DEF Carries, Stripped
    <3> QED BY <3>2, CharactersDiffer DEF Trail
  <2> QED BY <2>1, <2>2, <2>3
<1>3. ASSUME NEW k \in 1 .. Len(u) PROVE u[k] \in Trail
  <2>1. CASE k = m + 1
    BY <2>1 DEF Stripped, Trail
  <2>2. CASE k # m + 1
    <3> DEFINE j == p + k - 1
    <3>1. k \in 1 .. m /\ j \in n + 1 .. Len(s)
      BY <1>1, <2>2
    <3>2. u[k] = OnLine(s[j])
      BY <3>1 DEF Stripped
    <3> HIDE DEF j
    <3>3. s[j] \in Trail
      BY <3>1 DEF Carries
    <3> QED BY <3>2, <3>3 DEF OnLine, Trail
  <2> QED BY <2>1, <2>2
<1>4. 1 \in 1 .. Len(v) + 2 /\ 1 \in 1 .. Len(u) + 2
  BY <1>1
<1> QED BY <1>1, <1>2, <1>3, <1>4, TrailUnseen DEF Lex

(* From a on, v is u on one line.                                           *)
Overlaps(v, u, a, d, e) ==
  /\ Corresponds(v, u, d, a, e, {Newline})
  /\ a \in 1 .. Len(v) + 1 /\ a \in a .. e + 1 /\ a + d = 1
  /\ \A k \in 1 .. a - 1 : v[k] \in White

LEMMA SomethingCarried ==
  ASSUME NEW s \in Text, NEW v \in Text, NEW o, NEW n, Carries(s, v, o, n),
         NEW u, NEW p, NEW m, Stripped(s, u, p, m), p - 1 <= n
  PROVE  \E a, d, e : Overlaps(v, u, a, d, e)
<1> DEFINE h == IF m <= n - p + 1 THEN m ELSE n - p + 1
           a == o + p
           d == 1 - a
           e == h + o + p - 1
<1>1. /\ Len(s) \in Nat /\ Len(v) \in Nat /\ o \in Nat /\ n \in Nat /\ o + n <= Len(v) /\ n <= Len(s)
      /\ p \in Nat /\ p >= 1 /\ p <= Len(s) + 1 /\ m \in Nat /\ m <= Len(s) + 1 - p
      /\ u \in Text /\ Len(u) = m + 1
  BY DEF Carries, Stripped, Text
<1>2. h \in Nat /\ h <= m /\ h <= n - p + 1 /\ (h = m \/ h = n - p + 1)
  BY <1>1
<1>3. /\ d \in Int /\ e \in 0 .. Len(v) /\ e + d = h /\ h \in 0 .. Len(u) /\ a \in 1 .. e + 1 /\ a + d >= 1
      /\ a \in 1 .. Len(v) + 1 /\ a \in a .. e + 1 /\ a + d = 1
  BY <1>1, <1>2
<1>4. ASSUME NEW i \in a .. e PROVE u[i + d] = OnLine(v[i])
  <2> DEFINE k == i + d
             j == p + k - 1
  <2>1. k \in 1 .. m /\ j \in 1 .. n /\ j + o = i
    BY <1>1, <1>2
  <2>2. u[k] = OnLine(s[j])
    BY <2>1 DEF Stripped
  <2> HIDE DEF k, j
  <2>3. s[j] = v[i]
    BY <2>1 DEF Carries
  <2> QED BY <2>2, <2>3 DEF k
<1>5. ASSUME NEW k \in e + 1 .. Len(v) PROVE v[k] \in Trail
  <2>1. CASE k > o + n
    <3>1. k \in o + n + 1 .. Len(v)
      BY <1>1, <2>1
    <3> QED BY <3>1, CharactersDiffer DEF Carries, Trail
  <2>2. CASE ~ (k > o + n)
    <3> DEFINE j == k - o
    <3>1. h = m
      BY <1>1, <1>2, <2>2
    <3>2. j \in 1 .. n /\ j \in p + m .. Len(s) /\ j + o = k
      BY <1>1, <1>2, <2>2, <3>1
    <3> HIDE DEF j
    <3>3. s[j] = v[k] /\ s[j] \in Trail
      BY <3>2 DEF Carries, Stripped
    <3> QED BY <3>3
  <2> QED BY <2>1, <2>2
<1>6. ASSUME NEW k \in h + 1 .. Len(u) PROVE u[k] \in Trail
  <2>1. CASE k = m + 1
    BY <2>1 DEF Stripped, Trail
  <2>2. CASE k # m + 1
    <3> DEFINE j == p + k - 1
    <3>1. h = n - p + 1
      BY <1>1, <1>2, <2>2
    <3>2. k \in 1 .. m /\ j \in n + 1 .. Len(s)
      BY <1>1, <1>2, <2>2, <3>1
    <3>3. u[k] = OnLine(s[j])
      BY <3>2 DEF Stripped
    <3> HIDE DEF j
    <3>4. s[j] \in Trail
      BY <3>2 DEF Carries
    <3> QED BY <3>3, <3>4 DEF OnLine, Trail
  <2> QED BY <2>1, <2>2
<1>7. ASSUME NEW k \in 1 .. a - 1 PROVE v[k] \in White
  <2>1. CASE k <= o
    <3>1. k \in 1 .. o
      BY <2>1
    <3> QED BY <3>1 DEF Carries
  <2>2. CASE ~ (k <= o)
    <3> DEFINE j == k - o
    <3>1. j \in 1 .. n /\ j \in 1 .. p - 1 /\ j + o = k
      BY <1>1, <2>2
    <3> HIDE DEF j
    <3>2. s[j] = v[k] /\ s[j] \in White
      BY <3>1 DEF Carries, Stripped
    <3> QED BY <3>2
  <2> QED BY <2>1, <2>2
<1>8. Corresponds(v, u, d, a, e, {Newline})
  <2>1. \A i \in a .. e : u[i + d] = IF v[i] \in {Newline} THEN Blank ELSE v[i]
    BY <1>4 DEF OnLine
  <2>2. \A k \in e + d + 1 .. Len(u) : u[k] \in Trail
    <3>1. e + d + 1 = h + 1
      BY <1>3
    <3> QED BY <1>6, <3>1
  <2>3. e + d \in 0 .. Len(u) /\ {Newline} \in SUBSET {Newline, Bar}
    BY <1>3
  <2> HIDE DEF e, a, d
  <2> QED BY <1>3, <1>5, <2>1, <2>2, <2>3 DEF Corresponds
<1> HIDE DEF a, d, e
<1>9. Overlaps(v, u, a, d, e)
  BY <1>3, <1>7, <1>8 DEF Overlaps
<1> QED BY <1>9

(* It is executed as v reads, on one line.                                  *)
LEMMA RequestIs ==
  ASSUME NEW s \in Text, NEW v \in Text, NEW o, NEW n, Carries(s, v, o, n),
         Calm(v, Len(v)), Lex(v) \in Seq(Whole \X Text)
  PROVE  Execution(flatten_sql(s)) = OneLine(Seen(Lex(v)))
<1>1. PICK u, p, m : Stripped(s, u, p, m) /\ Execution(flatten_sql(s)) = Seen(Lex(u))
  BY ExecutionIs
<1>2. u \in Text /\ p \in Nat /\ m \in Nat /\ n \in Nat /\ o \in Nat /\ Len(v) \in Nat
  BY <1>1 DEF Stripped, Carries, Text
<1>3. CASE p - 1 > n
  <2>1. Seen(Lex(u)) = <<>> /\ Seen(Lex(v)) = <<>>
    BY <1>1, <1>3, NothingCarried
  <2> QED BY <1>1, <2>1, BlankedNothing DEF OneLine
<1>4. CASE p - 1 <= n
  <2>0. PICK a, d, e : Overlaps(v, u, a, d, e)
    BY <1>1, <1>2, <1>4, SomethingCarried
  <2>1. /\ Corresponds(v, u, d, a, e, {Newline})
        /\ a \in 1 .. Len(v) + 1 /\ \A k \in 1 .. a - 1 : v[k] \in White
    BY <2>0 DEF Overlaps
  <2> DEFINE R == {k \in Int : ~ InString(v, k)}
  <2>2. Lex(v) = LexFrom(v)[a]
    BY <2>1, WhiteSkipped
  <2>3. StaysIn(v, R)
    <3>1. ASSUME NEW i \in 1 .. Len(v), i \in R PROVE After(v, i) \in R
      <4>1. ~ InString(v, After(v, i))
        BY <1>2, <3>1, CalmAfter
      <4>2. After(v, i) \in Int
        BY <1>2, AfterIs
      <4> QED BY <4>1, <4>2
    <3> QED BY <3>1 DEF StaysIn
  <2>4. Unlined(v, u, d, R)
    <3>1. \A i \in 1 .. Len(v) : i \in R => ~ IsComment(v, i)
      BY DEF Calm
    <3> QED BY <3>1 DEF Unlined
  <2>5. a \in R
    <3>1. a \in Nat /\ 1 \in Nat /\ 1 >= 1 /\ 1 <= a
      BY <2>1
    <3>2. \A k \in 1 .. a - 1 : v[k] # Quote
      BY <2>1, CharactersDiffer
    <3>3. InString(v, a) <=> InString(v, 1)
      BY <3>1, <3>2, StringGoesOn
    <3> QED BY <3>1, <3>3, NoStringYet
  <2>6. Fine(Lex(v), {Newline})
    <3>1. ASSUME NEW k \in 1 .. Len(Lex(v)) PROVE Lex(v)[k][1] # "unclosed"
      <4>1. Lex(v)[k] \in Whole \X Text
        OBVIOUS
      <4> QED BY <4>1 DEF Whole
    <3>2. Bar \notin {Newline}
      BY CharactersDiffer
    <3> QED BY <3>1, <3>2 DEF Fine, FineToken
  <2>7. a \in a .. e + 1 /\ a + d = 1
    BY <2>0 DEF Overlaps
  <2> DEFINE old == {Newline}
  <2> HIDE DEF R
  <2>8. Fine(LexFrom(v)[a], old) /\ Corresponds(v, u, d, a, e, old)
    BY <2>1, <2>2, <2>6
  <2> HIDE DEF old
  <2>9. Seen(LexFrom(u)[a + d]) = Blanked(Seen(LexFrom(v)[a]), old)
    BY <1>2, <2>3, <2>4, <2>5, <2>7, <2>8, Alike
  <2>10. Seen(Lex(u)) = OneLine(Seen(Lex(v)))
    BY <2>2, <2>7, <2>9 DEF Lex, OneLine, old
  <2> QED BY <1>1, <2>10
<1> QED BY <1>2, <1>3, <1>4

-----------------------------------------------------------------------------
(* A text as written: its tokens, divided at semicolons.                    *)
DivState == [out : Seq(Seq(Tokens)), cur : Seq(Tokens)]
DivStart == [out |-> <<>>, cur |-> <<>>]

LEMMA GivenType ==
  ASSUME NEW out \in Seq(Seq(Tokens)), NEW part \in Seq(Tokens)
  PROVE  Given(out, part) \in Seq(Seq(Tokens))
BY AppendProperties DEF Given

LEMMA DividedType ==
  ASSUME NEW st \in DivState, NEW t \in Tokens
  PROVE  /\ Divided(st, t) \in DivState
         /\ t[1] = "semicolon" => Divided(st, t) = [out |-> Given(st.out, Seen(st.cur)), cur |-> <<>>]
         /\ t[1] # "semicolon" => Divided(st, t) = [out |-> st.out, cur |-> Append(st.cur, t)]
<1>1. st.out \in Seq(Seq(Tokens)) /\ st.cur \in Seq(Tokens)
  BY DEF DivState
<1>2. CASE t[1] = "semicolon"
  <2> DEFINE g == Given(st.out, Seen(st.cur))
  <2>1. g \in Seq(Seq(Tokens))
    BY <1>1, SeenType, GivenType
  <2>2. Divided(st, t) = [out |-> g, cur |-> <<>>]
    BY <1>2 DEF Divided
  <2>3. <<>> \in Seq(Tokens)
    OBVIOUS
  <2> HIDE DEF g
  <2>4. [out |-> g, cur |-> <<>>] \in DivState
    BY <2>1, <2>3 DEF DivState
  <2> QED BY <1>2, <2>2, <2>4 DEF g
<1>3. CASE t[1] # "semicolon"
  <2> DEFINE y == Append(st.cur, t)
  <2>1. y \in Seq(Tokens)
    BY <1>1, AppendProperties
  <2>2. Divided(st, t) = [st EXCEPT !.cur = y]
    BY <1>3 DEF Divided
  <2> HIDE DEF y
  <2>3. [st EXCEPT !.cur = y] = [out |-> st.out, cur |-> y]
    BY DEF DivState
  <2>4. [out |-> st.out, cur |-> y] \in DivState
    BY <1>1, <2>1 DEF DivState
  <2> QED BY <1>3, <2>2, <2>3, <2>4 DEF y
<1> QED BY <1>2, <1>3

(* st[i] is where the division is after i tokens.                           *)
Divides(x, st) ==
  /\ st[0] = DivStart
  /\ \A i \in 1 .. Len(x) : st[i] = Divided(st[i - 1], x[i])
  /\ \A i \in 0 .. Len(x) : st[i] \in DivState

LEMMA PartsIs ==
  ASSUME NEW x \in Seq(Tokens)
  PROVE  \E st : /\ Divides(x, st)
                 /\ Parts(x) = Given(st[Len(x)].out, Seen(st[Len(x)].cur))
<1> DEFINE n == Len(x)
           D == 0 .. n
           move == [i \in 1 .. n |-> [z \in DivState |-> Divided(z, x[i])]]
           Fits(f) == f = [i \in 0 .. Len(x) |->
                             IF i = 0 THEN [out |-> <<>>, cur |-> <<>>] ELSE Divided(f[i - 1], x[i])]
           F == CHOOSE f : Fits(f)
<1>0. n \in Nat /\ \A i \in 1 .. n : x[i] \in Tokens
  OBVIOUS
<1>1. DivStart \in DivState
  <2>1. <<>> \in Seq(Tokens) /\ <<>> \in Seq(Seq(Tokens))
    OBVIOUS
  <2> QED BY <2>1 DEF DivStart, DivState
<1>2. \A i \in 1 .. n : \A z \in DivState : move[i][z] = Divided(z, x[i]) /\ move[i][z] \in DivState
  BY <1>0, DividedType
<1> HIDE DEF move
<1>3. PICK g : Folds(g, n, DivState, DivStart, move)
  <2> HIDE DEF n
  <2> QED BY <1>0, <1>1, <1>2, FoldExists
<1>4. Fits(g)
  <2>1. \A i \in D : i # 0 => move[i][g[i - 1]] = Divided(g[i - 1], x[i])
    <3>1. \A i \in D : i # 0 => i \in 1 .. n /\ i - 1 \in 0 .. n
      BY <1>0
    <3> HIDE DEF D, n
    <3> QED BY <1>2, <1>3, <3>1 DEF Folds
  <2>2. g = [i \in D |-> IF i = 0 THEN DivStart ELSE move[i][g[i - 1]]]
    BY <1>3 DEF Folds
  <2>3. [i \in D |-> IF i = 0 THEN DivStart ELSE move[i][g[i - 1]]]
          = [i \in D |-> IF i = 0 THEN DivStart ELSE Divided(g[i - 1], x[i])]
    <3> HIDE DEF D, n
    <3> QED BY <2>1
  <2> QED BY <2>2, <2>3 DEF DivStart
<1>5. Fits(F)
  <2> HIDE DEF Fits
  <2> QED BY <1>4
<1>6. \A i \in D : F[i] = IF i = 0 THEN DivStart ELSE Divided(F[i - 1], x[i])
  <2> HIDE DEF F
  <2>1. F = [i \in D |-> IF i = 0 THEN DivStart ELSE Divided(F[i - 1], x[i])]
    BY <1>5 DEF DivStart
  <2> HIDE DEF D
  <2> QED BY <2>1
<1>7. Parts(x) = Given(F[Len(x)].out, Seen(F[Len(x)].cur))
  BY DEF Parts
<1> HIDE DEF F
<1>8. F[0] = DivStart /\ \A i \in 1 .. n : F[i] = Divided(F[i - 1], x[i])
  <2>1. 0 \in D /\ \A i \in 1 .. n : i \in D /\ i # 0
    BY <1>0
  <2> HIDE DEF D, n
  <2> QED BY <1>6, <2>1
<1>9. \A i \in 0 .. n : F[i] \in DivState
  <2>1. \A i \in 1 .. n : F[i - 1] \in DivState => F[i] \in DivState
    BY <1>0, <1>8, DividedType
  <2> HIDE DEF n
  <2> QED BY <1>0, <1>1, <1>8, <2>1, FoldStays
<1>10. Divides(x, F)
  BY <1>8, <1>9 DEF Divides
<1> QED BY <1>7, <1>10

(* Tokens without a semicolon are gathered.                                 *)
Gathers(y, x, z, st) ==
  /\ y \in Seq(Tokens) /\ x \in Seq(Whole \X Text) /\ z \in Seq(Tokens)
  /\ Divides(y \o (x \o z), st) /\ st[Len(y)].cur = <<>>

LEMMA DividedAlong ==
  ASSUME NEW y, NEW x, NEW z, NEW st, Gathers(y, x, z, st)
  PROVE  st[Len(y) + Len(x)] = [out |-> st[Len(y)].out, cur |-> x]
<1> SUFFICES ASSUME y \in Seq(Tokens), x \in Seq(Whole \X Text), z \in Seq(Tokens),
                    Divides(y \o (x \o z), st), st[Len(y)].cur = <<>>
             PROVE  st[Len(y) + Len(x)] = [out |-> st[Len(y)].out, cur |-> x]
  BY DEF Gathers
<1> DEFINE X == y \o (x \o z)
           n == Len(x)
           l == Len(y)
           o == st[l].out
           Goal(k) == st[l + k] = [out |-> o, cur |-> SubSeq(x, 1, k)]
           S == {k \in 0 .. n : Goal(k)}
<1>0. x \in Seq(Tokens)
  <2>1. Whole \X Text \subseteq Tokens
    BY DEF Whole, Tokens, TokenKinds
  <2> QED BY <2>1, SeqMonotonic
<1>1. /\ n \in Nat /\ l \in Nat /\ Len(z) \in Nat /\ X \in Seq(Tokens) /\ Len(X) = l + (n + Len(z))
      /\ \A k \in 1 .. n : X[l + k] = x[k]
  <2> DEFINE w == x \o z
  <2>1. w \in Seq(Tokens) /\ Len(w) = n + Len(z) /\ \A k \in 1 .. n + Len(z) : w[k] = IF k <= n THEN x[k] ELSE z[k - n]
    BY <1>0, ConcatProperties
  <2>2. n \in Nat /\ l \in Nat /\ Len(z) \in Nat
    BY <1>0
  <2> HIDE DEF w
  <2> DEFINE V == y \o w
  <2>3. V \in Seq(Tokens) /\ Len(V) = l + Len(w) /\ \A k \in 1 .. l + Len(w) : V[k] = IF k <= l THEN y[k] ELSE w[k - l]
    <3>1. w \in Seq(Tokens)
      BY <2>1
    <3> QED BY ONLY <3>1, y \in Seq(Tokens), ConcatProperties
  <2>4. V = X
    BY DEF w
  <2> HIDE DEF V, X, l, n
  <2>5. ASSUME NEW k \in 1 .. n PROVE V[l + k] = x[k]
    <3>1. l + k \in 1 .. l + Len(w) /\ ~ (l + k <= l) /\ (l + k) - l = k /\ k \in 1 .. n + Len(z) /\ k <= n
      BY <2>1, <2>2
    <3>2. w[k] = x[k]
      BY <2>1, <3>1
    <3> DEFINE j == l + k
    <3>3. j \in 1 .. l + Len(w) /\ ~ (j <= l) /\ j - l = k
      BY <3>1
    <3> HIDE DEF j
    <3>4. V[j] = w[k]
      BY <2>3, <3>3
    <3> QED BY <3>2, <3>4 DEF j
  <2> QED BY <2>1, <2>2, <2>3, <2>4, <2>5
<1> HIDE DEF X, l, n, o
<1>00. Divides(X, st)
  BY DEF X
<1>2. 0 \in S
  <2>1. 0 \in 0 .. n /\ l + 0 = l /\ l \in 0 .. Len(X)
    BY <1>1
  <2>2. SubSeq(x, 1, 0) = <<>>
    BY SubSeqEmpty
  <2>3. st[l] \in DivState /\ st[l].cur = <<>>
    BY <1>00, <2>1 DEF Divides, l
  <2>4. st[l] = [out |-> o, cur |-> <<>>]
    BY <2>3 DEF DivState, o
  <2>5. Goal(0)
    BY <2>1, <2>2, <2>4
  <2> HIDE DEF Goal
  <2> QED BY <2>1, <2>5
<1>3. ASSUME NEW k \in 0 .. n - 1, k \in S PROVE k + 1 \in S
  <2> DEFINE i == k + 1
             j == l + i
             v == SubSeq(x, 1, k)
  <2>1. i \in 1 .. n /\ i \in 0 .. n /\ j \in 1 .. Len(X) /\ j - 1 = l + k /\ j - 1 \in 0 .. Len(X) /\ i - 1 = k
        /\ i \in 1 .. Len(x) /\ 1 \in 1 .. Len(x)
    BY <1>1 DEF n
  <2>2. st[j - 1] = [out |-> o, cur |-> v] /\ st[j - 1] \in DivState
    BY <1>00, <1>3, <2>1 DEF Divides
  <2>3. X[j] = x[i] /\ x[i] \in Tokens /\ x[i][1] # "semicolon"
    <3> HIDE DEF i, j
    <3>1. x[i] \in Whole \X Text /\ x[i] \in Tokens
      BY <1>0, <2>1, ElementOfSeq
    <3>2. x[i][1] # "semicolon"
      BY <3>1 DEF Whole
    <3>3. X[l + i] = x[i]
      BY <1>1, <2>1
    <3> QED BY <3>1, <3>2, <3>3 DEF j
  <2>4. st[j] = Divided(st[j - 1], x[i])
    BY <1>00, <2>1, <2>3 DEF Divides
  <2>5. Append(v, x[i]) = SubSeq(x, 1, i)
    <3>1. SubSeq(x, 1, i) = SubSeq(x, 1, i - 1) \o <<x[i]>>
      <4> HIDE DEF i
      <4>1. 1 \in 1 .. Len(x) /\ i \in 1 .. Len(x)
        BY <2>1
      <4> QED BY <1>0, <4>1, SubSeqRecursiveSecond
    <3>2. v \in Seq(Tokens)
      <4>1. \A h \in 1 .. k : h \in 1 .. Len(x)
        BY <1>1 DEF n
      <4>2. \A h \in 1 .. k : x[h] \in Tokens
        BY <1>0, <4>1, ElementOfSeq
      <4> QED BY <4>2, SubSeqProperties
    <3> HIDE DEF v, i
    <3>3. Append(v, x[i]) = v \o <<x[i]>>
      BY <2>3, <3>2, AppendIsConcat
    <3> QED BY <2>1, <3>1, <3>3 DEF v
  <2> HIDE DEF v, i, j
  <2>6. st[j] = [out |-> o, cur |-> Append(v, x[i])]
    <3> DEFINE q == st[j - 1]
               t == x[i]
    <3>1. q = [out |-> o, cur |-> v] /\ q \in DivState /\ t \in Tokens /\ t[1] # "semicolon"
          /\ st[j] = Divided(q, t)
      BY <2>2, <2>3, <2>4
    <3> HIDE DEF q, t
    <3>2. Divided(q, t) = [out |-> q.out, cur |-> Append(q.cur, t)]
      BY <3>1, DividedType
    <3> QED BY <3>1, <3>2 DEF t
  <2>7. Goal(i)
    BY <2>5, <2>6 DEF j
  <2> HIDE DEF Goal
  <2>8. i \in S
    BY <2>1, <2>7
  <2> QED BY <2>8 DEF i
<1>4. 0 .. n \subseteq S
  <2> HIDE DEF S
  <2> QED BY <1>1, <1>2, <1>3, UpTo
<1>5. Goal(n)
  <2>1. n \in 0 .. n
    BY <1>1
  <2> HIDE DEF Goal
  <2> QED BY <1>4, <2>1
<1>6. SubSeq(x, 1, n) = x
  BY <1>0, SubSeqFull DEF n
<1> QED BY <1>5, <1>6 DEF l, n, o

OneLines(out) == [i \in DOMAIN out |-> OneLine(out[i])]

LEMMA OneLineType ==
  ASSUME NEW x \in Seq(Tokens)
  PROVE  OneLine(x) \in Seq(Tokens) /\ (OneLine(x) = <<>> <=> x = <<>>)
<1>1. OneLine(x) \in Seq(Tokens) /\ Len(OneLine(x)) = Len(x)
  BY BlankedIs DEF OneLine
<1> QED BY <1>1, EmptySeq

LEMMA OneLinesType ==
  ASSUME NEW out \in Seq(Seq(Tokens))
  PROVE  OneLines(out) \in Seq(Seq(Tokens)) /\ Len(OneLines(out)) = Len(out)
<1> DEFINE n == Len(out)
<1>1. OneLines(out) = [i \in 1 .. n |-> OneLine(out[i])] /\ n \in Nat
  BY DEF OneLines
<1>2. \A i \in 1 .. n : OneLine(out[i]) \in Seq(Tokens)
  <2> TAKE i \in 1 .. n
  <2>1. out[i] \in Seq(Tokens)
    BY ElementOfSeq
  <2> QED BY <2>1, OneLineType
<1> DEFINE P == Seq(Tokens)
<1> HIDE DEF n, P
<1>3. OneLines(out) \in [1 .. n -> P]
  BY <1>1, <1>2 DEF P
<1>4. OneLines(out) \in Seq(P) /\ Len(OneLines(out)) = n
  BY <1>1, <1>3
<1> QED BY <1>4 DEF n, P

LEMMA OneLinesGiven ==
  ASSUME NEW out \in Seq(Seq(Tokens)), NEW part \in Seq(Tokens)
  PROVE  OneLines(Given(out, part)) = Given(OneLines(out), OneLine(part))
<1>1. CASE part = <<>>
  <2>1. OneLine(part) = <<>>
    BY <1>1, OneLineType
  <2> QED BY <1>1, <2>1 DEF Given
<1>2. CASE part # <<>>
  <2> DEFINE P == Seq(Tokens)
             x == Append(out, part)
             l == OneLines(x)
             o == OneLines(out)
             q == OneLine(part)
             r == Append(o, q)
             n == Len(out)
  <2>1. q \in P /\ q # <<>>
    BY <1>2, OneLineType
  <2>2. x \in Seq(P) /\ Len(x) = n + 1 /\ (\A i \in 1 .. n : x[i] = out[i]) /\ x[n + 1] = part /\ n \in Nat
    BY AppendProperties
  <2> HIDE DEF x, q
  <2>3. l \in Seq(P) /\ Len(l) = n + 1 /\ \A i \in 1 .. n + 1 : l[i] = OneLine(x[i])
    <3>1. l \in Seq(P) /\ Len(l) = n + 1
      BY <2>2, OneLinesType
    <3>2. DOMAIN x = 1 .. n + 1
      BY <2>2
    <3> QED BY <3>1, <3>2 DEF OneLines
  <2>4. o \in Seq(P) /\ Len(o) = n /\ \A i \in 1 .. n : o[i] = OneLine(out[i])
    <3>1. o \in Seq(P) /\ Len(o) = n
      BY OneLinesType
    <3>2. DOMAIN out = 1 .. n
      OBVIOUS
    <3> QED BY <3>1, <3>2 DEF OneLines
  <2> HIDE DEF l, o, n, P
  <2>5. r \in Seq(P) /\ Len(r) = n + 1 /\ (\A i \in 1 .. n : r[i] = o[i]) /\ r[n + 1] = q
    BY <2>1, <2>4, AppendProperties
  <2> HIDE DEF r
  <2>6. \A i \in 1 .. n + 1 : l[i] = r[i]
    <3> TAKE i \in 1 .. n + 1
    <3>1. CASE i = n + 1
      BY <2>2, <2>3, <2>5, <3>1 DEF q
    <3>2. CASE i # n + 1
      <4>1. i \in 1 .. n
        BY <2>2, <3>2
      <4> QED BY <2>2, <2>3, <2>4, <2>5, <4>1
    <3> QED BY <3>1, <3>2
  <2>7. l = r
    BY <2>3, <2>5, <2>6, SeqEqual
  <2> QED BY <1>2, <2>1, <2>7 DEF Given, l, r, x, o, q
<1> QED BY <1>1, <1>2

(* Up to b the text c reads as r; a statement can begin behind b.           *)
Reached(c, st, b, r) ==
  /\ b \in 0 .. Len(c) /\ ~ InString(c, b + 1)
  /\ \E y \in Seq(Tokens) : /\ Lex(c) = y \o LexFrom(c)[b + 1]
                            /\ st[Len(y)].cur = <<>> /\ OneLines(st[Len(y)].out) = r

LEMMA LexSeq ==
  ASSUME NEW c \in Text
  PROVE  Len(c) \in Nat /\ Lex(c) \in Seq(Tokens)
<1>1. Len(c) \in Nat /\ 1 \in 1 .. Len(c) + 2
  BY DEF Text
<1> QED BY <1>1, LexType DEF Lex

LEMMA ReachedStart ==
  ASSUME NEW c \in Text, NEW st, Divides(Lex(c), st)
  PROVE  Reached(c, st, 0, <<>>)
<1>1. Lex(c) \in Seq(Tokens) /\ Len(c) \in Nat
  BY LexSeq
<1>2. <<>> \in Seq(Tokens) /\ <<>> \o Lex(c) = Lex(c) /\ Len(<<>>) = 0
  BY <1>1, ConcatEmptySeq
<1>3. st[0].cur = <<>> /\ st[0].out = <<>>
  BY DEF Divides, DivStart
<1>4. OneLines(<<>>) = <<>>
  BY DEF OneLines
<1>5. 0 + 1 = 1 /\ 0 \in 0 .. Len(c) /\ ~ InString(c, 1)
  BY <1>1, NoStringYet
<1> DEFINE y == <<>>
<1>6. /\ y \in Seq(Tokens) /\ Lex(c) = y \o LexFrom(c)[0 + 1]
      /\ st[Len(y)].cur = <<>> /\ OneLines(st[Len(y)].out) = <<>>
  BY <1>2, <1>3, <1>4, <1>5 DEF Lex
<1> HIDE DEF y
<1> QED BY <1>5, <1>6 DEF Reached

LEMMA ReachedWhite ==
  ASSUME NEW c \in Text, NEW st, NEW b, NEW r, Reached(c, st, b, r), b < Len(c), c[b + 1] \in White
  PROVE  Reached(c, st, b + 1, r)
<1> DEFINE i == b + 1
<1>1. i \in 1 .. Len(c) /\ i \in 0 .. Len(c) /\ i >= 1 /\ i \in Nat
  BY DEF Reached, Text
<1>2. c[i] \in White /\ c[i] # Quote /\ ~ InString(c, i)
  BY CharactersDiffer DEF Reached
<1>3. PICK y \in Seq(Tokens) : /\ Lex(c) = y \o LexFrom(c)[i]
                               /\ st[Len(y)].cur = <<>> /\ OneLines(st[Len(y)].out) = r
  BY DEF Reached
<1> HIDE DEF i
<1>4. LexFrom(c)[i] = LexFrom(c)[i + 1]
  BY <1>1, <1>2, WhiteStep
<1>5. ~ InString(c, i + 1)
  BY <1>1, <1>2, NothingTurns
<1>6. Reached(c, st, i, r)
  BY <1>1, <1>3, <1>4, <1>5 DEF Reached
<1> QED BY <1>6 DEF i

(* What there is when a piece of text behind b has been divided.            *)
Gathered(c, st, x, e, r, y, out) ==
  /\ y \in Seq(Tokens) /\ x \in Seq(Tokens) /\ out \in Seq(Seq(Tokens))
  /\ Lex(c) = (y \o x) \o LexFrom(c)[e + 1]
  /\ st[Len(y \o x)] = [out |-> out, cur |-> x] /\ OneLines(out) = r

LEMMA PieceGathered ==
  ASSUME NEW c \in Text, NEW st, Divides(Lex(c), st), NEW b, NEW r, Reached(c, st, b, r),
         NEW e, Piece(c, b, e)
  PROVE  \E y, out : Gathered(c, st, Lex(SubSeq(c, b + 1, e)), e, r, y, out)
<1> DEFINE x == Lex(SubSeq(c, b + 1, e))
           z == LexFrom(c)[e + 1]
<1>1. PICK y \in Seq(Tokens) : /\ Lex(c) = y \o LexFrom(c)[b + 1]
                               /\ st[Len(y)].cur = <<>> /\ OneLines(st[Len(y)].out) = r
  BY DEF Reached
<1>2. x \in Seq(Whole \X Text) /\ LexFrom(c)[b + 1] = x \o z
  BY PieceTokens
<1>3. z \in Seq(Tokens)
  <2> DEFINE i == e + 1
  <2>1. i \in 1 .. Len(c) + 2
    BY PieceIs
  <2> HIDE DEF i
  <2>2. LexFrom(c)[i] \in Seq(Tokens)
    BY <2>1, LexType
  <2> QED BY <2>2 DEF i
<1> HIDE DEF x, z
<1>4. x \in Seq(Tokens)
  <2>1. Whole \X Text \subseteq Tokens
    BY DEF Whole, Tokens, TokenKinds
  <2> QED BY <1>2, <2>1, SeqMonotonic
<1>5. Lex(c) = y \o (x \o z)
  BY <1>1, <1>2
<1>6. Divides(y \o (x \o z), st)
  BY <1>5
<1>7. st[Len(y) + Len(x)] = [out |-> st[Len(y)].out, cur |-> x]
  <2>1. Gathers(y, x, z, st)
    BY <1>1, <1>2, <1>3, <1>6 DEF Gathers
  <2> QED BY ONLY <2>1, DividedAlong
<1>8. Len(y \o x) = Len(y) + Len(x) /\ Lex(c) = (y \o x) \o z
  BY <1>3, <1>4, <1>5, Associative, ConcatProperties
<1>9. st[Len(y)].out \in Seq(Seq(Tokens))
  <2> DEFINE w == x \o z
  <2>1. w \in Seq(Tokens)
    BY <1>3, <1>4, ConcatProperties
  <2>2. Lex(c) = y \o w
    BY <1>5
  <2> HIDE DEF w
  <2>3. Len(Lex(c)) = Len(y) + Len(w) /\ Len(y) \in Nat /\ Len(w) \in Nat
    BY <2>1, <2>2, ConcatProperties
  <2>4. Len(y) \in 0 .. Len(Lex(c))
    BY <2>3
  <2> QED BY <2>4 DEF Divides, DivState
<1>10. Gathered(c, st, x, e, r, y, st[Len(y)].out)
  BY <1>1, <1>4, <1>7, <1>8, <1>9 DEF Gathered, z
<1> QED BY <1>10 DEF x

(* What a piece of text reads as, on one line.                              *)
ReadsAs(c, b, e) == OneLine(Seen(Lex(SubSeq(c, b + 1, e))))

LEMMA ReachedSemicolon ==
  ASSUME NEW c \in Text, NEW st, Divides(Lex(c), st), NEW b, NEW r, Reached(c, st, b, r),
         NEW e, Piece(c, b, e), e < Len(c), c[e + 1] = Semicolon
  PROVE  Reached(c, st, e + 1, Given(r, ReadsAs(c, b, e)))
<1> DEFINE x == Lex(SubSeq(c, b + 1, e))
           i == e + 1
           t == <<"semicolon", <<>>>>
           z == LexFrom(c)[i + 1]
<1>1. PICK y, out : Gathered(c, st, x, e, r, y, out)
  BY PieceGathered
<1> HIDE DEF x
<1>2. i \in 1 .. Len(c) /\ i \in 0 .. Len(c) /\ i \in Nat /\ i >= 1 /\ c[i] = Semicolon /\ Len(c) \in Nat
  BY PieceIs
<1>3. ~ InString(c, i)
  BY DEF Piece, Calm
<1> HIDE DEF i
<1>4. LexFrom(c)[i] = <<t>> \o z
  <2>1. LexAt(c, i) = <<t>> /\ After(c, i) = i + 1
    BY <1>2, LexAtIs
  <2> QED BY <1>2, <2>1, LexJumps
<1>5. z \in Seq(Tokens)
  <2> DEFINE j == i + 1
  <2>1. j \in 1 .. Len(c) + 2
    BY <1>2
  <2> HIDE DEF j
  <2>2. LexFrom(c)[j] \in Seq(Tokens)
    BY <2>1, LexType
  <2> QED BY <2>2 DEF j
<1>6. t \in Tokens /\ t[1] = "semicolon"
  <2>1. <<>> \in Text
    BY DEF Text
  <2> QED BY <2>1 DEF Tokens, TokenKinds
<1> HIDE DEF t, z
<1> DEFINE g == y \o x
           w == g \o <<t>>
           X == Lex(c)
           k == Len(g) + 1
<1>7. /\ g \in Seq(Tokens) /\ x \in Seq(Tokens) /\ out \in Seq(Seq(Tokens))
      /\ X = g \o LexFrom(c)[i]
      /\ st[Len(g)] = [out |-> out, cur |-> x] /\ OneLines(out) = r
  BY <1>1, ConcatProperties DEF Gathered, i
<1> HIDE DEF g
<1>8. w \in Seq(Tokens) /\ Len(w) = k /\ w[k] = t /\ Len(g) \in Nat
  BY <1>6, <1>7
<1>9. X = w \o z
  <2> DEFINE a == <<t>>
  <2>1. a \in Seq(Tokens)
    BY <1>6
  <2>2. X = g \o (a \o z)
    BY <1>4, <1>7
  <2> HIDE DEF a
  <2>3. g \o (a \o z) = (g \o a) \o z
    BY <1>5, <1>7, <2>1, Associative
  <2> QED BY <2>2, <2>3 DEF a
<1> HIDE DEF w, X
<1>10. k \in 1 .. Len(X) /\ X[k] = t
  <2>1. Len(X) = Len(w) + Len(z) /\ Len(z) \in Nat
        /\ \A h \in 1 .. Len(w) + Len(z) : X[h] = IF h <= Len(w) THEN w[h] ELSE z[h - Len(w)]
    <3>1. w \in Seq(Tokens) /\ z \in Seq(Tokens)
      BY <1>5, <1>8
    <3>2. Len(w \o z) = Len(w) + Len(z)
          /\ \A h \in 1 .. Len(w) + Len(z) : (w \o z)[h] = IF h <= Len(w) THEN w[h] ELSE z[h - Len(w)]
      BY ONLY <3>1, ConcatProperties
    <3>3. Len(z) \in Nat
      BY <3>1
    <3> QED BY <1>9, <3>2, <3>3
  <2>2. k \in 1 .. Len(w) + Len(z) /\ k <= Len(w)
    BY <1>8, <2>1
  <2> HIDE DEF k
  <2> QED BY <1>8, <2>1, <2>2
<1>11. k - 1 = Len(g)
  BY <1>8
<1> DEFINE q == st[Len(g)]
<1>12. q \in DivState /\ q.out = out /\ q.cur = x
  <2>1. Len(g) \in 0 .. Len(X)
    BY <1>8, <1>10
  <2>2. q \in DivState
    BY <2>1 DEF Divides, X
  <2> QED BY <1>7, <2>2
<1>13. st[k] = Divided(q, t)
  <2>1. st[k] = Divided(st[k - 1], X[k])
    <3> HIDE DEF k
    <3> QED BY <1>10 DEF Divides, X
  <2> QED BY <1>10, <1>11, <2>1
<1> HIDE DEF q, k
<1>14. st[k] = [out |-> Given(out, Seen(x)), cur |-> <<>>]
  BY <1>6, <1>12, <1>13, DividedType
<1> DEFINE new == Given(out, Seen(x))
<1>15. OneLines(new) = Given(r, OneLine(Seen(x)))
  BY <1>7, SeenType, OneLinesGiven
<1> HIDE DEF new
<1>16. st[Len(w)].cur = <<>> /\ OneLines(st[Len(w)].out) = Given(r, OneLine(Seen(x)))
  BY <1>8, <1>14, <1>15 DEF new
<1>17. ~ InString(c, i + 1)
  BY <1>2, <1>3, NothingTurns, CharactersDiffer
<1> DEFINE r2 == Given(r, OneLine(Seen(x)))
<1>18. Reached(c, st, i, r2)
  <2> HIDE DEF r2
  <2>1. Lex(c) = w \o LexFrom(c)[i + 1]
    BY <1>9 DEF X, z
  <2> QED BY <1>2, <1>8, <1>16, <1>17, <2>1 DEF Reached, r2
<1> QED BY <1>18 DEF i, x, ReadsAs

LEMMA WrittenIs ==
  ASSUME NEW c \in Text
  PROVE  Written(c) = OneLines(Parts(Lex(c)))
BY DEF Written, OneLines

LEMMA ReachedEnd ==
  ASSUME NEW c \in Text, NEW st, Divides(Lex(c), st),
         Parts(Lex(c)) = Given(st[Len(Lex(c))].out, Seen(st[Len(Lex(c))].cur)),
         NEW b, NEW r, Reached(c, st, b, r), Piece(c, b, Len(c))
  PROVE  Written(c) = Given(r, ReadsAs(c, b, Len(c)))
<1> DEFINE e == Len(c)
           x == Lex(SubSeq(c, b + 1, e))
<1>1. PICK y, out : Gathered(c, st, x, e, r, y, out)
  BY PieceGathered
<1> HIDE DEF x
<1> DEFINE g == y \o x
<1>2. /\ g \in Seq(Tokens) /\ x \in Seq(Tokens) /\ out \in Seq(Seq(Tokens))
      /\ Lex(c) = g \o LexFrom(c)[e + 1]
      /\ st[Len(g)] = [out |-> out, cur |-> x] /\ OneLines(out) = r
  BY <1>1, ConcatProperties DEF Gathered
<1> HIDE DEF g
<1>3. Lex(c) = g
  <2>1. LexFrom(c)[e + 1] = <<>>
    BY LexJumps
  <2>2. g \o <<>> = g
    BY <1>2, ConcatEmptySeq
  <2> QED BY <1>2, <2>1, <2>2
<1>4. Parts(Lex(c)) = Given(out, Seen(x))
  BY <1>2, <1>3
<1>5. OneLines(Given(out, Seen(x))) = Given(r, OneLine(Seen(x)))
  BY <1>2, SeenType, OneLinesGiven
<1> QED BY <1>4, <1>5, WrittenIs DEF ReadsAs, x

(* A text that ends where a statement can begin.                            *)
LEMMA WrittenReached ==
  ASSUME NEW c \in Text, NEW st, Divides(Lex(c), st),
         Parts(Lex(c)) = Given(st[Len(Lex(c))].out, Seen(st[Len(Lex(c))].cur)),
         NEW r, Reached(c, st, Len(c), r), Calm(c, Len(c))
  PROVE  Written(c) = r
<1> DEFINE e == Len(c)
<1>1. e \in Nat
  BY LexSeq
<1>2. Piece(c, e, e)
  <2>1. e \in 0 .. e /\ ~ (e < e) /\ e + 1 .. e = {} /\ ~ InString(c, e + 1)
    BY <1>1 DEF Reached
  <2>2. NoEnd(c, e + 1, e)
    BY <2>1 DEF NoEnd
  <2> QED BY <2>1, <2>2 DEF Piece
<1>3. Written(c) = Given(r, ReadsAs(c, e, e))
  BY <1>2, ReachedEnd
<1>4. ReadsAs(c, e, e) = <<>>
  <2>1. SubSeq(c, e + 1, e) = <<>>
    BY <1>1, SubSeqEmpty
  <2>2. <<>> \in Text /\ Len(<<>>) = 0
    BY DEF Text
  <2>3. Lex(<<>>) = <<>>
    <3> DEFINE v == <<>>
    <3>1. v \in Text /\ Len(v) + 1 = 1
      BY <2>2
    <3> HIDE DEF v
    <3>2. LexFrom(v)[Len(v) + 1] = <<>>
      BY <3>1, LexJumps
    <3> QED BY <3>1, <3>2 DEF Lex, v
  <2> QED BY <2>1, <2>3, SeenNothing, BlankedNothing DEF ReadsAs, OneLine
<1> QED BY <1>3, <1>4 DEF Given

-----------------------------------------------------------------------------
(* What is read of the requests of a client.                                *)
LEMMA ExecutionType ==
  ASSUME NEW s \in Statement
  PROVE  Execution(s) \in Seq(Tokens)
<1>1. s \in Text /\ Flush(s)
  BY DEF Statement
<1>2. PICK m \in 0 .. Len(s) : Body(s) \in Text /\ Len(Body(s)) = m
  BY <1>1, BodyIs
<1>3. Body(s) \o <<Blank>> \in Text
  BY <1>2, BlankAdded
<1>4. Lex(Body(s) \o <<Blank>>) \in Seq(Tokens)
  BY <1>3, LexSeq
<1> QED BY <1>4, SeenType DEF Execution

(* f[i] is what is read of the first i requests.                            *)
Readings(x, f) ==
  /\ f[0] = <<>>
  /\ \A i \in 1 .. Len(x) : f[i] = Given(f[i - 1], Execution(x[i]))
  /\ \A i \in 0 .. Len(x) : f[i] \in Seq(Seq(Tokens))

LEMMA ReadIs ==
  ASSUME NEW x \in Seq(Statement)
  PROVE  \E f : Readings(x, f) /\ Read(x) = f[Len(x)]
<1> DEFINE n == Len(x)
           D == 0 .. n
           St == Seq(Seq(Tokens))
           move == [i \in 1 .. n |-> [z \in St |-> Given(z, Execution(x[i]))]]
           Fits(f) == f = [i \in 0 .. Len(x) |->
                             IF i = 0 THEN <<>> ELSE Given(f[i - 1], Execution(x[i]))]
           F == CHOOSE f : Fits(f)
<1>0. n \in Nat /\ \A i \in 1 .. n : Execution(x[i]) \in Seq(Tokens)
  <2>1. \A i \in 1 .. n : x[i] \in Statement
    BY ElementOfSeq
  <2> QED BY <2>1, ExecutionType
<1>1. <<>> \in St
  OBVIOUS
<1>2. \A i \in 1 .. n : \A z \in St : move[i][z] = Given(z, Execution(x[i])) /\ move[i][z] \in St
  BY <1>0, GivenType
<1> HIDE DEF move, St
<1>3. PICK g : Folds(g, n, St, <<>>, move)
  <2> HIDE DEF n
  <2> QED BY <1>0, <1>1, <1>2, FoldExists
<1>4. Fits(g)
  <2>1. \A i \in D : i # 0 => move[i][g[i - 1]] = Given(g[i - 1], Execution(x[i]))
    <3>1. \A i \in D : i # 0 => i \in 1 .. n /\ i - 1 \in 0 .. n
      BY <1>0
    <3> HIDE DEF D, n
    <3> QED BY <1>2, <1>3, <3>1 DEF Folds
  <2>2. g = [i \in D |-> IF i = 0 THEN <<>> ELSE move[i][g[i - 1]]]
    BY <1>3 DEF Folds
  <2>3. [i \in D |-> IF i = 0 THEN <<>> ELSE move[i][g[i - 1]]]
          = [i \in D |-> IF i = 0 THEN <<>> ELSE Given(g[i - 1], Execution(x[i]))]
    <3> HIDE DEF D, n
    <3> QED BY <2>1
  <2> QED BY <2>2, <2>3
<1>5. Fits(F)
  <2> HIDE DEF Fits
  <2> QED BY <1>4
<1>6. \A i \in D : F[i] = IF i = 0 THEN <<>> ELSE Given(F[i - 1], Execution(x[i]))
  <2> HIDE DEF F
  <2>1. F = [i \in D |-> IF i = 0 THEN <<>> ELSE Given(F[i - 1], Execution(x[i]))]
    BY <1>5
  <2> HIDE DEF D
  <2> QED BY <2>1
<1>7. Read(x) = F[Len(x)]
  BY DEF Read
<1> HIDE DEF F
<1>8. F[0] = <<>> /\ \A i \in 1 .. n : F[i] = Given(F[i - 1], Execution(x[i]))
  <2>1. 0 \in D /\ \A i \in 1 .. n : i \in D /\ i # 0
    BY <1>0
  <2> HIDE DEF D, n
  <2> QED BY <1>6, <2>1
<1>9. \A i \in 0 .. n : F[i] \in St
  <2>1. \A i \in 1 .. n : F[i - 1] \in St => F[i] \in St
    <3> TAKE i \in 1 .. n
    <3>1. F[i] = Given(F[i - 1], Execution(x[i])) /\ Execution(x[i]) \in Seq(Tokens)
      BY <1>0, <1>8
    <3> QED BY <3>1, GivenType DEF St
  <2> HIDE DEF n
  <2> QED BY <1>0, <1>1, <1>8, <2>1, FoldStays
<1>10. Readings(x, F)
  BY <1>8, <1>9 DEF Readings, St
<1> QED BY <1>7, <1>10

LEMMA ReadingsAlike ==
  ASSUME NEW x \in Seq(Statement), NEW y \in Seq(Statement), NEW f, NEW g, Readings(x, f), Readings(y, g),
         NEW n \in Nat, n <= Len(x), n <= Len(y), \A i \in 1 .. n : x[i] = y[i]
  PROVE  f[n] = g[n]
<1> DEFINE S == {i \in 0 .. n : f[i] = g[i]}
<1>1. 0 \in S
  BY DEF Readings
<1>2. ASSUME NEW k \in 0 .. n - 1, k \in S PROVE k + 1 \in S
  <2> DEFINE i == k + 1
  <2>1. i \in 1 .. n /\ i \in 1 .. Len(x) /\ i \in 1 .. Len(y) /\ i - 1 = k /\ i \in 0 .. n
    OBVIOUS
  <2> HIDE DEF i
  <2>2. f[i] = Given(f[i - 1], Execution(x[i])) /\ g[i] = Given(g[i - 1], Execution(y[i]))
    BY <2>1 DEF Readings
  <2>3. i \in S
    BY <1>2, <2>1, <2>2
  <2> QED BY <2>3 DEF i
<1>3. 0 .. n \subseteq S
  <2> HIDE DEF S
  <2> QED BY <1>1, <1>2, UpTo
<1> QED BY <1>3

LEMMA ReadNothing == Read(<<>>) = <<>>
<1> DEFINE x == <<>>
<1>1. x \in Seq(Statement) /\ Len(x) = 0
  OBVIOUS
<1> HIDE DEF x
<1>2. PICK f : Readings(x, f) /\ Read(x) = f[Len(x)]
  BY <1>1, ReadIs
<1> QED BY <1>1, <1>2 DEF Readings, x

LEMMA ReadAppend ==
  ASSUME NEW x \in Seq(Statement), NEW s \in Statement
  PROVE  Read(Append(x, s)) = Given(Read(x), Execution(s))
<1> DEFINE y == Append(x, s)
           n == Len(x)
           k == n + 1
<1>1. /\ y \in Seq(Statement) /\ Len(y) = k /\ (\A i \in 1 .. n : y[i] = x[i]) /\ y[k] = s /\ n \in Nat
  BY AppendProperties
<1> HIDE DEF y
<1>2. PICK f : Readings(x, f) /\ Read(x) = f[Len(x)]
  BY ReadIs
<1>3. PICK g : Readings(y, g) /\ Read(y) = g[Len(y)]
  BY <1>1, ReadIs
<1>4. f[n] = g[n]
  <2>1. n <= Len(x) /\ n <= Len(y)
    BY <1>1
  <2> HIDE DEF n, k
  <2> QED BY <1>1, <1>2, <1>3, <2>1, ReadingsAlike
<1>5. g[k] = Given(g[n], Execution(s))
  <2>1. k \in 1 .. Len(y) /\ k - 1 = n
    BY <1>1
  <2> HIDE DEF n, k
  <2>2. g[k] = Given(g[k - 1], Execution(y[k]))
    BY <1>3, <2>1 DEF Readings
  <2> QED BY <1>1, <2>1, <2>2
<1> QED BY <1>1, <1>2, <1>3, <1>4, <1>5 DEF y

(* More requests do not change what is read of the first ones.              *)
LEMMA ReadBegins ==
  ASSUME NEW x \in Seq(Statement), NEW y \in Seq(Statement), Begins(x, y)
  PROVE  IsPrefix(Read(x), Read(y))
<1> DEFINE n == Len(x)
           m == Len(y)
           d == m - n
           P == Seq(Tokens)
<1>1. PICK f : Readings(x, f) /\ Read(x) = f[Len(x)]
  BY ReadIs
<1>2. PICK g : Readings(y, g) /\ Read(y) = g[Len(y)]
  BY ReadIs
<1>3. n \in Nat /\ m \in Nat /\ n <= m /\ d \in Nat /\ n + d = m
  BY DEF Begins
<1>4. f[n] = g[n]
  <2>1. n <= Len(x) /\ n <= Len(y) /\ \A i \in 1 .. n : x[i] = y[i]
    BY <1>3 DEF Begins
  <2> HIDE DEF n
  <2> QED BY <1>1, <1>2, <1>3, <2>1, ReadingsAlike
<1>5. \A i \in 0 .. m : g[i] \in Seq(P)
  BY <1>2 DEF Readings
<1> DEFINE S == {k \in 0 .. d : Begins(g[n], g[n + k])}
<1>6. 0 \in S
  <2>1. n + 0 = n /\ n \in 0 .. m
    BY <1>3
  <2>2. g[n] \in Seq(P)
    BY <1>5, <2>1
  <2> DEFINE a == g[n]
  <2>3. a \in Seq(P) /\ Len(a) \in Nat
    BY <2>2
  <2> HIDE DEF a
  <2>4. Begins(a, a)
    BY <2>3 DEF Begins
  <2> QED BY <1>3, <2>1, <2>4 DEF a
<1>7. ASSUME NEW k \in 0 .. d - 1, k \in S PROVE k + 1 \in S
  <2> DEFINE i == n + k
             j == n + (k + 1)
             a == g[n]
             b == g[i]
             c == g[j]
             q == Execution(y[j])
  <2>1. j \in 1 .. m /\ j - 1 = i /\ i \in 0 .. m /\ n \in 0 .. m /\ j \in 0 .. m /\ k + 1 \in 0 .. d
    BY <1>3
  <2>2. Begins(a, b)
    BY <1>7
  <2>3. a \in Seq(P) /\ b \in Seq(P)
    <3> HIDE DEF i, n, m, P
    <3> QED BY <1>5, <2>1
  <2>4. c = Given(b, q)
    <3> HIDE DEF i, j
    <3>1. c = Given(g[j - 1], q)
      BY <1>2, <2>1 DEF Readings
    <3> QED BY <2>1, <3>1
  <2>5. q \in P
    <3> HIDE DEF j
    <3>1. y[j] \in Statement
      BY <2>1, ElementOfSeq
    <3> QED BY <3>1, ExecutionType
  <2> HIDE DEF a, b, c, q, P
  <2>6. Begins(b, c)
    <3>1. CASE q = <<>>
      BY <2>3, <2>4, <3>1 DEF Given, Begins
    <3>2. CASE q # <<>>
      <4>1. c = Append(b, q)
        BY <2>4, <3>2 DEF Given
      <4>2. Len(c) = Len(b) + 1 /\ Len(b) \in Nat /\ \A h \in 1 .. Len(b) : c[h] = b[h]
        BY <2>3, <2>5, <4>1, AppendProperties
      <4> QED BY <4>2 DEF Begins
    <3> QED BY <3>1, <3>2
  <2>7. Len(a) \in Nat /\ Len(b) \in Nat /\ Len(c) \in Nat
    <3>1. c \in Seq(P)
      <4> HIDE DEF j, n, m
      <4> QED BY <1>5, <2>1 DEF c
    <3> QED BY <2>3, <3>1
  <2>8. Begins(a, c)
    <3>1. Len(a) <= Len(c) /\ \A h \in 1 .. Len(a) : h \in 1 .. Len(b)
      BY <2>2, <2>6, <2>7 DEF Begins
    <3>2. \A h \in 1 .. Len(a) : c[h] = a[h]
      BY <2>2, <2>6, <3>1 DEF Begins
    <3> QED BY <3>1, <3>2 DEF Begins
  <2> QED BY <2>1, <2>8 DEF a, c, j
<1>8. 0 .. d \subseteq S
  <2> HIDE DEF S, d
  <2> QED BY <1>3, <1>6, <1>7, UpTo
<1> DEFINE a == g[n]
           c == g[m]
<1>9. Begins(a, c) /\ a \in Seq(P) /\ c \in Seq(P)
  <2>1. d \in 0 .. d /\ n \in 0 .. m /\ m \in 0 .. m
    BY <1>3
  <2>2. Begins(g[n], g[n + d])
    <3> HIDE DEF d
    <3> QED BY <1>8, <2>1
  <2> QED BY <1>3, <1>5, <2>1, <2>2
<1>10. IsPrefix(a, c)
  <2> HIDE DEF a, c, P
  <2> DEFINE l == Len(a)
  <2>1. l \in Nat /\ Len(c) \in Nat /\ l <= Len(c) /\ \A i \in 1 .. l : c[i] = a[i]
    BY <1>9 DEF Begins
  <2>2. SubSeq(a, 1, l) = a
    BY <1>9, SubSeqFull
  <2>3. \A i \in 1 .. l : c[i] \in P
    BY <1>9, <2>1, ElementOfSeq
  <2> HIDE DEF l
  <2>4. /\ SubSeq(c, 1, l) \in Seq(P) /\ Len(SubSeq(c, 1, l)) = (IF 1 <= l THEN l - 1 + 1 ELSE 0)
        /\ \A i \in 1 .. l - 1 + 1 : SubSeq(c, 1, l)[i] = c[1 + i - 1]
    BY <2>1, <2>3, SubSeqProperties
  <2>5. (IF 1 <= l THEN l - 1 + 1 ELSE 0) = l /\ l - 1 + 1 = l /\ \A i \in 1 .. l : 1 + i - 1 = i
    BY <2>1
  <2>6. SubSeq(c, 1, l) = a
    <3> DEFINE w == SubSeq(c, 1, l)
    <3>1. w \in Seq(P) /\ Len(w) = l /\ \A i \in 1 .. l : w[i] = a[i]
      BY <2>1, <2>4, <2>5
    <3> HIDE DEF w
    <3>2. w = a
      BY <1>9, <3>1, SeqEqual DEF l
    <3> QED BY <3>2 DEF w
  <2> QED BY <2>1, <2>2, <2>6 DEF IsPrefix, l
<1> QED BY <1>1, <1>2, <1>4, <1>10

-----------------------------------------------------------------------------
(* From a file: one request per statement.                                  *)
RequestOf(text) == flatten_sql(Append(text, Semicolon))
Requests(out) == [i \in DOMAIN out |-> RequestOf(out[i])]

LEMMA RequestOfType ==
  ASSUME NEW text \in Text
  PROVE  RequestOf(text) \in Statement /\ Append(text, Semicolon) \in Text
<1>1. Append(text, Semicolon) \in Text
  BY AppendProperties, CharactersDiffer DEF Text
<1> QED BY <1>1, FlattenIs DEF RequestOf

LEMMA RequestsType ==
  ASSUME NEW out \in Seq(Text)
  PROVE  /\ Requests(out) \in Seq(Statement) /\ Len(Requests(out)) = Len(out)
         /\ \A i \in 1 .. Len(out) : Requests(out)[i] = RequestOf(out[i])
<1> DEFINE n == Len(out)
<1>1. Requests(out) = [i \in 1 .. n |-> RequestOf(out[i])] /\ n \in Nat
  BY DEF Requests
<1>2. \A i \in 1 .. n : RequestOf(out[i]) \in Statement
  <2> TAKE i \in 1 .. n
  <2>1. out[i] \in Text
    BY ElementOfSeq
  <2> QED BY <2>1, RequestOfType
<1> HIDE DEF n
<1>3. Requests(out) \in [1 .. n -> Statement] /\ \A i \in 1 .. n : Requests(out)[i] = RequestOf(out[i])
  BY <1>1, <1>2
<1>4. Requests(out) \in Seq(Statement) /\ Len(Requests(out)) = n
  BY <1>1, <1>3
<1> QED BY <1>3, <1>4 DEF n

LEMMA RequestsAppend ==
  ASSUME NEW out \in Seq(Text), NEW text \in Text
  PROVE  Requests(Append(out, text)) = Append(Requests(out), RequestOf(text))
<1> DEFINE x == Append(out, text)
           n == Len(out)
           a == Requests(out)
           l == Requests(x)
           r == Append(a, RequestOf(text))
<1>1. x \in Seq(Text) /\ Len(x) = n + 1 /\ (\A i \in 1 .. n : x[i] = out[i]) /\ x[n + 1] = text /\ n \in Nat
  BY AppendProperties
<1> HIDE DEF x
<1>2. l \in Seq(Statement) /\ Len(l) = n + 1 /\ \A i \in 1 .. n + 1 : l[i] = RequestOf(x[i])
  BY <1>1, RequestsType
<1>3. a \in Seq(Statement) /\ Len(a) = n /\ \A i \in 1 .. n : a[i] = RequestOf(out[i])
  BY RequestsType
<1> HIDE DEF a, l, n
<1>4. r \in Seq(Statement) /\ Len(r) = n + 1 /\ (\A i \in 1 .. n : r[i] = a[i]) /\ r[n + 1] = RequestOf(text)
  BY <1>3, RequestOfType, AppendProperties
<1> HIDE DEF r
<1>5. \A i \in 1 .. n + 1 : l[i] = r[i]
  <2> TAKE i \in 1 .. n + 1
  <2>1. CASE i = n + 1
    BY <1>1, <1>2, <1>4, <2>1
  <2>2. CASE i # n + 1
    <3>1. i \in 1 .. n
      BY <1>1, <2>2
    <3> QED BY <1>1, <1>2, <1>3, <1>4, <3>1
  <2> QED BY <2>1, <2>2
<1>6. l = r
  BY <1>2, <1>4, <1>5, SeqEqual
<1> QED BY <1>6 DEF l, r, a, x

LEMMA BatchIs ==
  ASSUME NEW src
  PROVE  Batch(src) = Requests(split_sql_statements(src))
BY DEF Batch, Requests, RequestOf

(* A statement cut off is read as its piece of the text.                    *)
LEMMA KeptReads ==
  ASSUME NEW out \in Seq(Text), NEW v \in Text, Calm(v, Len(v)), Lex(v) \in Seq(Whole \X Text)
  PROVE  Read(Requests(Kept(out, v))) = Given(Read(Requests(out)), OneLine(Seen(Lex(v))))
<1>1. PICK p, q : TrimsTo(v, p, q)
  BY TrimIs
<1> DEFINE t == trim(v)
<1>2. t \in Text /\ Len(t) = q - p + 1 /\ \A k \in 1 .. q - p + 1 : t[k] = v[p + k - 1]
  BY <1>1, TrimmedIs
<1>3. /\ Len(v) \in Nat /\ p \in Nat /\ p >= 1 /\ p <= Len(v) + 1 /\ q \in Int /\ q >= p - 1 /\ q <= Len(v)
  BY <1>1 DEF TrimsTo, Text
<1> HIDE DEF t
<1>4. CASE t = <<>>
  <2>1. q = p - 1
    BY <1>2, <1>3, <1>4
  <2>2. ASSUME NEW k \in 1 .. Len(v) PROVE v[k] \in Trail
    <3>1. k \in 1 .. p - 1 \/ k \in q + 1 .. Len(v)
      BY <1>3, <2>1
    <3> QED BY <1>1, <3>1, CharactersDiffer DEF TrimsTo, Trail
  <2>3. 1 \in 1 .. Len(v) + 2
    BY <1>3
  <2>4. Seen(Lex(v)) = <<>>
    BY <2>2, <2>3, TrailUnseen DEF Lex
  <2>5. OneLine(Seen(Lex(v))) = <<>>
    BY <2>4, BlankedNothing DEF OneLine
  <2> QED BY <1>4, <2>5 DEF Kept, Given, t
<1>5. CASE t # <<>>
  <2> DEFINE s == Append(t, Semicolon)
             o == p - 1
             n == q - p + 1
  <2>1. s \in Text /\ Len(s) = n + 1 /\ (\A k \in 1 .. n : s[k] = t[k]) /\ s[n + 1] = Semicolon /\ n \in Nat
    <3>1. Semicolon \in Characters
      BY CharactersDiffer
    <3> QED BY <1>2, <3>1, AppendProperties DEF Text
  <2> HIDE DEF s
  <2>2. Carries(s, v, o, n)
    <3>1. o \in 0 .. Len(v) /\ n \in 0 .. Len(v) - o /\ n <= Len(s) /\ o + n = q
      <4>1. o \in 0 .. Len(v) /\ n \in 0 .. Len(v) - o /\ o + n = q
        BY ONLY <1>3
      <4>2. n <= Len(s)
        BY ONLY <2>1
      <4> QED BY <4>1, <4>2
    <3>2. ASSUME NEW k \in 1 .. n PROVE s[k] = v[k + o]
      <4>1. p + k - 1 = k + o
        BY <1>3
      <4> QED BY <1>2, <2>1, <4>1
    <3>3. \A k \in 1 .. o : v[k] \in White
      BY <1>1 DEF TrimsTo
    <3>4. \A k \in o + n + 1 .. Len(v) : v[k] \in White
      BY <1>1, <3>1 DEF TrimsTo
    <3>5. \A k \in n + 1 .. Len(s) : s[k] \in Trail
      <4>1. \A k \in n + 1 .. Len(s) : k = n + 1
        BY <2>1
      <4> QED BY <2>1, <4>1 DEF Trail
    <3> HIDE DEF o, n
    <3> QED BY <3>1, <3>2, <3>3, <3>4, <3>5 DEF Carries
  <2>3. Execution(RequestOf(t)) = OneLine(Seen(Lex(v)))
    <3> HIDE DEF o, n
    <3>1. Execution(flatten_sql(s)) = OneLine(Seen(Lex(v)))
      BY <2>1, <2>2, RequestIs
    <3> QED BY <3>1 DEF RequestOf, s
  <2>4. Kept(out, v) = Append(out, t)
    BY <1>5 DEF Kept, t
  <2>5. Requests(Append(out, t)) = Append(Requests(out), RequestOf(t))
    BY <1>2, RequestsAppend
  <2>6. Read(Append(Requests(out), RequestOf(t))) = Given(Read(Requests(out)), Execution(RequestOf(t)))
    BY <1>2, RequestsType, RequestOfType, ReadAppend
  <2> QED BY <2>3, <2>4, <2>5, <2>6
<1> QED BY <1>4, <1>5

(* Where the client is after i characters of c, and what it has cut off is  *)
(* what the text before its piece reads as.                                 *)
Tracks(c, s, st, i, b) ==
  /\ b \in 0 .. i /\ s.cur = SubSeq(c, b + 1, i) /\ NoEnd(c, b + 1, i)
  /\ Reached(c, st, b, Read(Requests(s.out)))

Followed(c, s, st, i) ==
  /\ s.in_str = InString(c, i + 1)
  /\ \E b : Tracks(c, s, st, i, b)

(* A piece in a text without comments.                                      *)
LEMMA CalmPiece ==
  ASSUME NEW c \in Text, Calm(c, Len(c)), NEW e \in 0 .. Len(c), NEW b \in 0 .. e,
         ~ InString(c, b + 1), ~ InString(c, e + 1), NoEnd(c, b + 1, e), e < Len(c) => c[e + 1] \in Edge
  PROVE  Piece(c, b, e)
<1>1. \A j \in 1 .. e : j \in 1 .. Len(c)
  BY DEF Text
<1>2. Calm(c, e)
  BY <1>1 DEF Calm
<1> QED BY <1>2 DEF Piece

LEMMA CutFollows ==
  ASSUME NEW c \in Text, Calm(c, Len(c)), NEW st, Divides(Lex(c), st), NEW i \in 1 .. Len(c),
         NEW s \in CutState, Followed(c, s, st, i - 1)
  PROVE  Followed(c, Cut(s, c[i]), st, i)
<1> DEFINE j == i - 1
           ch == c[i]
           t == Cut(s, ch)
<1>1. Len(c) \in Nat /\ i \in Nat /\ i >= 1 /\ i <= Len(c) /\ j \in Nat /\ j + 1 = i /\ j \in 0 .. Len(c)
  BY DEF Text
<1>2. PICK b : Tracks(c, s, st, j, b)
  BY DEF Followed
<1>3. s.in_str = InString(c, i)
  BY <1>1 DEF Followed
<1>4. /\ b \in 0 .. j /\ s.cur = SubSeq(c, b + 1, j) /\ NoEnd(c, b + 1, j)
      /\ Reached(c, st, b, Read(Requests(s.out)))
  BY <1>2 DEF Tracks
<1>5. s.out \in Seq(Text) /\ s.cur \in Text /\ s.in_str \in BOOLEAN
      /\ s = [out |-> s.out, cur |-> s.cur, in_str |-> s.in_str]
  BY DEF CutState
<1>6. Append(s.cur, ch) = SubSeq(c, b + 1, i)
  BY <1>4, SubSeqGrows DEF Text
<1>7. ASSUME ch = Semicolon => InString(c, i), t.out = s.out, t.cur = Append(s.cur, ch)
      PROVE  Tracks(c, t, st, i, b)
  <2>1. NoEnd(c, b + 1, i)
    <3>1. \A k \in b + 1 .. i : k \in b + 1 .. j \/ k = i
      BY <1>1, <1>4
    <3> HIDE DEF j
    <3> QED BY <1>4, <1>7, <3>1 DEF NoEnd
  <2>2. b \in 0 .. i
    BY <1>1, <1>4
  <2> QED BY <1>4, <1>6, <1>7, <2>1, <2>2 DEF Tracks
<1> HIDE DEF j
<1>8. CASE ch = Quote
  <2>1. t = [s EXCEPT !.cur = Append(s.cur, ch), !.in_str = ~ s.in_str]
    BY <1>8 DEF Cut
  <2> HIDE DEF t
  <2>2. t.out = s.out /\ t.cur = Append(s.cur, ch) /\ t.in_str = ~ s.in_str
    BY <1>5, <2>1
  <2>3. InString(c, i + 1) <=> ~ InString(c, i)
    BY <1>1, <1>8, QuoteTurns
  <2>4. t.in_str = InString(c, i + 1)
    BY <1>3, <2>2, <2>3 DEF InString
  <2>5. ch # Semicolon
    BY <1>8, CharactersDiffer
  <2> QED BY <1>7, <2>2, <2>4, <2>5 DEF Followed, t
<1>9. CASE ch = Semicolon /\ ~ s.in_str
  <2> DEFINE r == Read(Requests(s.out))
             new == Kept(s.out, s.cur)
  <2>1. t = [out |-> new, cur |-> <<>>, in_str |-> FALSE]
    BY <1>9, CharactersDiffer DEF Cut
  <2>2. ~ InString(c, i) /\ ch # Quote
    BY <1>3, <1>9, CharactersDiffer
  <2>3. Piece(c, b, j)
    <3>1. ~ InString(c, b + 1)
      BY <1>4 DEF Reached
    <3>2. c[j + 1] \in Edge /\ ~ InString(c, j + 1)
      BY <1>1, <1>9, <2>2 DEF Edge, Trail
    <3> QED BY <1>1, <1>4, <3>1, <3>2, CalmPiece
  <2>4. Reached(c, st, j + 1, Given(r, ReadsAs(c, b, j)))
    <3>1. j < Len(c) /\ c[j + 1] = Semicolon
      BY <1>1, <1>9
    <3> HIDE DEF r
    <3> QED BY <1>4, <2>3, <3>1, ReachedSemicolon DEF r
  <2>5. Read(Requests(new)) = Given(r, ReadsAs(c, b, j))
    <3> DEFINE v == SubSeq(c, b + 1, j)
    <3>1. v \in Text /\ Calm(v, Len(v)) /\ Lex(v) \in Seq(Whole \X Text)
      BY <2>3, PieceIs, PieceCalm, PieceTokens
    <3>2. s.cur = v
      BY <1>4
    <3> HIDE DEF v
    <3>3. Read(Requests(Kept(s.out, v))) = Given(Read(Requests(s.out)), OneLine(Seen(Lex(v))))
      BY <1>5, <3>1, KeptReads
    <3> QED BY <3>2, <3>3 DEF ReadsAs, v
  <2> HIDE DEF t, new, r
  <2>6. t.out = new /\ t.cur = <<>> /\ t.in_str = FALSE
    BY <2>1
  <2>7. Tracks(c, t, st, i, i)
    <3>1. SubSeq(c, i + 1, i) = <<>> /\ i \in 0 .. i /\ i + 1 .. i = {}
      BY <1>1, SubSeqEmpty
    <3>2. NoEnd(c, i + 1, i)
      BY <3>1 DEF NoEnd
    <3> QED BY <1>1, <2>4, <2>5, <2>6, <3>1, <3>2 DEF Tracks
  <2>8. ~ InString(c, i + 1)
    BY <1>1, <2>2, NothingTurns
  <2>9. t.in_str = InString(c, i + 1)
    BY <2>6, <2>8 DEF InString
  <2> QED BY <2>7, <2>9 DEF Followed, t
<1>10. CASE ch # Quote /\ ~ (ch = Semicolon /\ ~ s.in_str)
  <2>1. t = [s EXCEPT !.cur = Append(s.cur, ch)]
    BY <1>10 DEF Cut
  <2> HIDE DEF t
  <2>2. t.out = s.out /\ t.cur = Append(s.cur, ch) /\ t.in_str = s.in_str
    BY <1>5, <2>1
  <2>3. InString(c, i + 1) <=> InString(c, i)
    BY <1>1, <1>10, NothingTurns
  <2>4. t.in_str = InString(c, i + 1)
    BY <1>3, <2>2, <2>3 DEF InString
  <2>5. ch = Semicolon => InString(c, i)
    BY <1>3, <1>10
  <2> QED BY <1>7, <2>2, <2>4, <2>5 DEF Followed, t
<1> QED BY <1>8, <1>9, <1>10

LEMMA CutsFollow ==
  ASSUME NEW c \in Text, NEW src \in Text, Begins(c, src), Calm(c, Len(c)),
         NEW st, Divides(Lex(c), st), NEW ct, Cuts(src, ct)
  PROVE  Followed(c, ct[Len(c)], st, Len(c)) /\ ct[Len(c)] \in CutState
<1> DEFINE n == Len(c)
           S == {i \in 0 .. n : Followed(c, ct[i], st, i)}
<1>0. n \in Nat /\ n <= Len(src) /\ Len(src) \in Nat
  BY DEF Text, Begins
<1>1. 0 \in S
  <2> DEFINE s == ct[0]
  <2>1. s = CutStart
    BY DEF Cuts
  <2> HIDE DEF s
  <2>2. s.out = <<>> /\ s.cur = <<>> /\ s.in_str = FALSE
    BY <2>1 DEF CutStart
  <2>3. Reached(c, st, 0, <<>>)
    BY ReachedStart
  <2>4. Requests(<<>>) = <<>>
    BY DEF Requests
  <2>5. SubSeq(c, 0 + 1, 0) = <<>> /\ 0 \in 0 .. 0 /\ 0 + 1 .. 0 = {} /\ 0 + 1 = 1
    BY SubSeqEmpty
  <2>6. Tracks(c, s, st, 0, 0)
    BY <2>2, <2>3, <2>4, <2>5, ReadNothing DEF Tracks, NoEnd
  <2>7. s.in_str = InString(c, 0 + 1)
    <3>1. ~ InString(c, 0 + 1)
      BY <2>5, NoStringYet
    <3> QED BY <2>2, <3>1 DEF InString
  <2>8. Followed(c, s, st, 0)
    BY <2>6, <2>7 DEF Followed
  <2> QED BY <1>0, <2>8 DEF s
<1>2. ASSUME NEW k \in 0 .. n - 1, k \in S PROVE k + 1 \in S
  <2> DEFINE i == k + 1
  <2>1. i \in 1 .. Len(c) /\ i \in 1 .. Len(src) /\ i - 1 = k /\ k \in 0 .. Len(src) /\ i \in 0 .. n
    BY <1>0
  <2> HIDE DEF i
  <2>2. ct[i] = Cut(ct[k], c[i]) /\ ct[k] \in CutState
    BY <2>1 DEF Cuts, Begins
  <2> DEFINE s == ct[k]
  <2>3. s \in CutState /\ Followed(c, s, st, i - 1)
    BY <1>2, <2>1, <2>2
  <2> HIDE DEF s
  <2>4. Followed(c, Cut(s, c[i]), st, i)
    BY <2>1, <2>3, CutFollows
  <2>5. i \in S
    BY <2>1, <2>2, <2>4 DEF s
  <2> QED BY <2>5 DEF i
<1>3. 0 .. n \subseteq S
  <2> HIDE DEF S, n
  <2> QED BY <1>0, <1>1, <1>2, UpTo
<1>4. n \in 0 .. n /\ n \in 0 .. Len(src)
  BY <1>0
<1>5. Followed(c, ct[n], st, n)
  BY <1>3, <1>4
<1>6. ct[n] \in CutState
  BY <1>4 DEF Cuts
<1> QED BY <1>5, <1>6

(* All of a text without comments is read as it is written.                 *)
LEMMA BatchReads ==
  ASSUME NEW src \in Text, Calm(src, Len(src))
  PROVE  Read(Batch(src)) = Written(src)
<1> DEFINE n == Len(src)
<1>0. n \in Nat /\ Lex(src) \in Seq(Tokens)
  BY LexSeq
<1>1. PICK st : Divides(Lex(src), st) /\ Parts(Lex(src)) = Given(st[Len(Lex(src))].out, Seen(st[Len(Lex(src))].cur))
  BY <1>0, PartsIs
<1>2. PICK ct : Cuts(src, ct) /\ split_sql_statements(src) = Kept(ct[Len(src)].out, ct[Len(src)].cur)
  BY SplitIs
<1> DEFINE s == ct[n]
<1>3. Followed(src, s, st, n) /\ s \in CutState
  <2>1. Begins(src, src)
    BY <1>0 DEF Begins
  <2> QED BY <1>1, <1>2, <2>1, CutsFollow
<1> HIDE DEF s
<1>4. PICK b : Tracks(src, s, st, n, b)
  BY <1>3 DEF Followed
<1>5. /\ b \in 0 .. n /\ s.cur = SubSeq(src, b + 1, n) /\ NoEnd(src, b + 1, n)
      /\ Reached(src, st, b, Read(Requests(s.out))) /\ s.out \in Seq(Text)
  BY <1>3, <1>4 DEF Tracks, CutState
<1>6. Piece(src, b, n)
  <2>1. ~ InString(src, b + 1) /\ ~ InString(src, n + 1)
    BY <1>5 DEF Reached, Calm
  <2>2. n \in 0 .. n /\ ~ (n < n)
    BY <1>0
  <2> QED BY <1>5, <2>1, <2>2, CalmPiece
<1> DEFINE r == Read(Requests(s.out))
<1>7. Written(src) = Given(r, ReadsAs(src, b, n))
  <2> HIDE DEF r
  <2> QED BY <1>1, <1>5, <1>6, ReachedEnd DEF r
<1> DEFINE v == SubSeq(src, b + 1, n)
<1>8. v \in Text /\ Calm(v, Len(v)) /\ Lex(v) \in Seq(Whole \X Text)
  BY <1>6, PieceIs, PieceCalm, PieceTokens
<1>9. Read(Requests(Kept(s.out, v))) = Given(r, OneLine(Seen(Lex(v))))
  <2> HIDE DEF v
  <2> QED BY <1>5, <1>8, KeptReads
<1>10. Batch(src) = Requests(Kept(s.out, v))
  BY <1>2, <1>5, BatchIs DEF s
<1> QED BY <1>7, <1>9, <1>10 DEF ReadsAs

(* Statements that were cut off stay.                                       *)
LEMMA KeptBegins ==
  ASSUME NEW out \in Seq(Text), NEW cur \in Text
  PROVE  Begins(out, Kept(out, cur)) /\ Begins(out, out)
<1> DEFINE t == trim(cur)
<1>1. t \in Text
  BY TrimType
<1> HIDE DEF t
<1>2. Begins(out, Append(out, t))
  BY <1>1, AppendProperties DEF Begins
<1>3. Begins(out, out)
  BY DEF Begins
<1> QED BY <1>2, <1>3 DEF Kept, t

LEMMA CutBegins ==
  ASSUME NEW s \in CutState, NEW ch \in Characters
  PROVE  Begins(s.out, Cut(s, ch).out)
<1>1. s.out \in Seq(Text) /\ s.cur \in Text
  BY DEF CutState
<1>2. Begins(s.out, s.out) /\ Begins(s.out, Kept(s.out, s.cur))
  BY <1>1, KeptBegins
<1> DEFINE t == Cut(s, ch)
<1>3. CASE ch = Quote
  <2>1. t = [s EXCEPT !.cur = Append(s.cur, ch), !.in_str = ~ s.in_str]
    BY <1>3 DEF Cut
  <2>2. t.out = s.out
    BY <2>1 DEF CutState
  <2> QED BY <1>2, <2>2
<1>4. CASE ch # Quote /\ ch = Semicolon /\ ~ s.in_str
  <2>1. t = [out |-> Kept(s.out, s.cur), cur |-> <<>>, in_str |-> FALSE]
    BY <1>4 DEF Cut
  <2>2. t.out = Kept(s.out, s.cur)
    BY <2>1
  <2> QED BY <1>2, <2>2
<1>5. CASE ch # Quote /\ ~ (ch = Semicolon /\ ~ s.in_str)
  <2>1. t = [s EXCEPT !.cur = Append(s.cur, ch)]
    BY <1>5 DEF Cut
  <2>2. t.out = s.out
    BY <2>1 DEF CutState
  <2> QED BY <1>2, <2>2
<1> QED BY <1>3, <1>4, <1>5

LEMMA CutsBegin ==
  ASSUME NEW src \in Text, NEW ct, Cuts(src, ct), NEW n \in 0 .. Len(src)
  PROVE  Begins(ct[n].out, ct[Len(src)].out)
<1> DEFINE d == Len(src) - n
           Goal(k) == Begins(ct[n].out, ct[n + k].out)
           S == {k \in 0 .. d : Goal(k)}
<1>0. Len(src) \in Nat /\ n \in Nat /\ d \in Nat /\ n + d = Len(src)
  BY DEF Text
<1>1. \A i \in 0 .. Len(src) : ct[i] \in CutState /\ ct[i].out \in Seq(Text) /\ ct[i].cur \in Text
  BY DEF Cuts, CutState
<1>2. 0 \in S
  <2>1. n + 0 = n /\ 0 \in 0 .. d
    BY <1>0
  <2>2. Begins(ct[n].out, ct[n].out)
    BY <1>1, KeptBegins
  <2>3. Goal(0)
    BY <2>1, <2>2
  <2> HIDE DEF Goal
  <2> QED BY <2>1, <2>3
<1>3. ASSUME NEW k \in 0 .. d - 1, k \in S PROVE k + 1 \in S
  <2> DEFINE i == n + k
             j == n + (k + 1)
  <2>1. i \in 0 .. Len(src) /\ j \in 1 .. Len(src) /\ j - 1 = i /\ k + 1 \in 0 .. d /\ j \in 0 .. Len(src)
    BY <1>0
  <2>2. Begins(ct[n].out, ct[i].out)
    BY <1>3
  <2> HIDE DEF i, j
  <2>3. ct[j] = Cut(ct[i], src[j]) /\ src[j] \in Characters
    BY <2>1 DEF Cuts, Text
  <2>4. Begins(ct[i].out, ct[j].out)
    BY <1>1, <2>1, <2>3, CutBegins
  <2>5. Begins(ct[n].out, ct[j].out)
    <3> DEFINE x == ct[n].out
               y == ct[i].out
               z == ct[j].out
    <3>1. x \in Seq(Text) /\ y \in Seq(Text) /\ z \in Seq(Text) /\ Begins(x, y) /\ Begins(y, z)
      BY <1>1, <2>1, <2>2, <2>4
    <3> HIDE DEF x, y, z
    <3>2. Begins(x, z)
      BY <3>1, BeginsOn
    <3> QED BY <3>2 DEF x, z
  <2>6. Goal(k + 1)
    BY <2>5 DEF j
  <2> HIDE DEF Goal
  <2> QED BY <2>1, <2>6
<1>4. 0 .. d \subseteq S
  <2> HIDE DEF S, d
  <2> QED BY <1>0, <1>2, <1>3, UpTo
<1>5. Goal(d)
  <2>1. d \in 0 .. d
    BY <1>0
  <2> HIDE DEF Goal, d
  <2> QED BY <1>4, <2>1
<1> QED BY <1>0, <1>5

(* A text that ends where a statement ends, or is empty.                    *)
Ended(c) == Len(c) > 0 => c[Len(c)] = Semicolon /\ ~ InString(c, Len(c))

(* What is complete in front of the first comment is read as written.       *)
LEMMA BatchBegins ==
  ASSUME NEW c \in Text, NEW src \in Text, Begins(c, src), Calm(c, Len(c)), Ended(c)
  PROVE  IsPrefix(Written(c), Read(Batch(src)))
<1> DEFINE m == Len(c)
           n == Len(src)
<1>0. n \in Nat /\ m \in Nat /\ m <= n /\ Lex(c) \in Seq(Tokens)
  BY LexSeq DEF Begins
<1>1. PICK st : Divides(Lex(c), st) /\ Parts(Lex(c)) = Given(st[Len(Lex(c))].out, Seen(st[Len(Lex(c))].cur))
  BY <1>0, PartsIs
<1>2. PICK ct : Cuts(src, ct) /\ split_sql_statements(src) = Kept(ct[n].out, ct[n].cur)
  BY SplitIs
<1> DEFINE s == ct[m]
           z == ct[n]
<1>3. Followed(c, s, st, m) /\ s \in CutState /\ z \in CutState
  <2>1. n \in 0 .. n
    BY <1>0
  <2> QED BY <1>1, <1>2, <2>1, CutsFollow DEF Cuts
<1>4. Begins(s.out, z.out)
  <2>1. m \in 0 .. n
    BY <1>0
  <2> HIDE DEF m
  <2> QED BY <1>2, <2>1, CutsBegin
<1> HIDE DEF s, z
<1>5. s.out \in Seq(Text) /\ z.out \in Seq(Text) /\ z.cur \in Text
  BY <1>3 DEF CutState
<1>6. PICK b : Tracks(c, s, st, m, b)
  BY <1>3 DEF Followed
<1>7. b \in 0 .. m /\ NoEnd(c, b + 1, m) /\ Reached(c, st, b, Read(Requests(s.out)))
  BY <1>6 DEF Tracks
<1>8. b = m
  <2> SUFFICES ASSUME b # m PROVE FALSE
    OBVIOUS
  <2>1. m > 0 /\ m \in b + 1 .. m
    BY <1>0, <1>7
  <2>2. c[m] = Semicolon /\ ~ InString(c, m)
    BY <2>1 DEF Ended
  <2> HIDE DEF m
  <2> QED BY <1>7, <2>1, <2>2 DEF NoEnd
<1> DEFINE r == Read(Requests(s.out))
<1>9. Written(c) = r
  <2>1. Reached(c, st, Len(c), r)
    BY <1>7, <1>8
  <2> HIDE DEF r
  <2> QED BY <1>1, <2>1, WrittenReached
<1> DEFINE all == Kept(z.out, z.cur)
<1>10. all \in Seq(Text) /\ Begins(s.out, all)
  <2>1. all \in Seq(Text) /\ Begins(z.out, all)
    BY <1>5, KeptType, KeptBegins
  <2> DEFINE x == s.out
             y == z.out
  <2>2. x \in Seq(Text) /\ y \in Seq(Text) /\ Begins(x, y) /\ Begins(y, all)
    BY <1>4, <1>5, <2>1
  <2> HIDE DEF x, y, all
  <2>3. Begins(x, all)
    BY <2>1, <2>2, BeginsOn
  <2> QED BY <2>1, <2>3 DEF x
<1>11. Batch(src) = Requests(all)
  BY <1>2, BatchIs DEF z
<1> HIDE DEF all
<1>12. Begins(Requests(s.out), Requests(all)) /\ Requests(s.out) \in Seq(Statement) /\ Requests(all) \in Seq(Statement)
  <2> DEFINE x == s.out
             l == Len(x)
  <2>0. x \in Seq(Text) /\ Begins(x, all) /\ l \in Nat /\ Len(all) \in Nat
    BY <1>5, <1>10
  <2> HIDE DEF x
  <2>1. /\ Requests(x) \in Seq(Statement) /\ Len(Requests(x)) = l
        /\ \A i \in 1 .. l : Requests(x)[i] = RequestOf(x[i])
    BY <2>0, RequestsType
  <2>2. /\ Requests(all) \in Seq(Statement) /\ Len(Requests(all)) = Len(all)
        /\ \A i \in 1 .. Len(all) : Requests(all)[i] = RequestOf(all[i])
    BY <1>10, RequestsType
  <2>3. l <= Len(all) /\ \A i \in 1 .. l : i \in 1 .. Len(all) /\ all[i] = x[i]
    BY <2>0 DEF Begins
  <2> HIDE DEF l
  <2>4. \A i \in 1 .. l : Requests(all)[i] = Requests(x)[i]
    BY <2>1, <2>2, <2>3
  <2>5. Begins(Requests(x), Requests(all))
    BY <2>1, <2>2, <2>3, <2>4 DEF Begins
  <2> QED BY <2>1, <2>2, <2>5 DEF x
<1>13. IsPrefix(Read(Requests(s.out)), Read(Requests(all)))
  BY <1>12, ReadBegins
<1> QED BY <1>9, <1>11, <1>13

-----------------------------------------------------------------------------
(* The parts of a text the property speaks about.                           *)
NoComment(s) == \A j \in 1 .. Len(s) : ~ InString(s, j) => ~ IsComment(s, j)

LEMMA StartStrings ==
  ASSUME NEW c \in Text, NEW s \in Text, Begins(c, s)
  PROVE  \A j \in 1 .. Len(c) + 1 : InString(c, j) <=> InString(s, j)
<1> TAKE j \in 1 .. Len(c) + 1
<1>1. j \in Nat /\ Len(c) \in Nat /\ \A k \in 1 .. j - 1 : k \in 1 .. Len(c)
  BY DEF Text
<1>2. \A k \in 1 .. j - 1 : c[k] = Quote <=> s[k] = Quote
  BY <1>1 DEF Begins
<1> QED BY <1>1, <1>2, StringsAlike

LEMMA StartNoComment ==
  ASSUME NEW c \in Text, NEW s \in Text, Begins(c, s), NoComment(s)
  PROVE  NoComment(c)
<1>1. Len(c) \in Nat /\ Len(s) \in Nat /\ Len(c) <= Len(s)
  BY DEF Begins, Text
<1>2. ASSUME NEW j \in 1 .. Len(c), ~ InString(c, j), IsComment(c, j) PROVE FALSE
  <2>1. j \in 1 .. Len(s) /\ j \in 1 .. Len(c) + 1
    BY <1>1
  <2>2. ~ InString(s, j)
    BY <1>2, <2>1, StartStrings
  <2>3. c[j] = Dash /\ j < Len(c) /\ c[j + 1] = Dash
    BY <1>2 DEF IsComment
  <2> DEFINE i == j + 1
  <2>4. i \in 1 .. Len(c) /\ j < Len(s)
    BY <1>1, <2>3
  <2> HIDE DEF i
  <2>5. s[j] = Dash /\ s[i] = Dash
    BY <2>3, <2>4 DEF Begins, i
  <2>6. IsComment(s, j)
    BY <2>4, <2>5 DEF IsComment, i
  <2> QED BY <2>1, <2>2, <2>6 DEF NoComment
<1> QED BY <1>2 DEF NoComment

LEMMA BeforeIs ==
  ASSUME NEW s \in Text
  PROVE  BeforeComments(s) \in Text /\ Begins(BeforeComments(s), s) /\ NoComment(BeforeComments(s))
<1> DEFINE C == Comments(s)
           n == Len(s)
<1>0. n \in Nat
  BY DEF Text
<1>1. ASSUME NEW j \in 1 .. n, ~ InString(s, j), IsComment(s, j) PROVE j \in C
  <2>1. j \in 1 .. n - 1 /\ s[j] = Dash /\ s[j + 1] = Dash
    BY <1>0, <1>1 DEF IsComment
  <2> QED BY <1>1, <2>1 DEF Comments
<1>2. CASE C = {}
  <2>1. BeforeComments(s) = s
    BY <1>2 DEF BeforeComments
  <2>2. NoComment(s)
    BY <1>1, <1>2 DEF NoComment
  <2>3. Begins(s, s)
    BY <1>0 DEF Begins
  <2> QED BY <2>1, <2>2, <2>3
<1>3. CASE C # {}
  <2>0. C \in SUBSET (1 .. n - 1)
    BY DEF Comments
  <2>1. C \in SUBSET Nat
    BY <2>0
  <2>2. Min(C) \in C /\ \A m \in C : Min(C) <= m
    <3> HIDE DEF C
    <3> QED BY <1>3, <2>1, MinIsLeast
  <2> DEFINE m == Min(C) - 1
             c == SubSeq(s, 1, m)
  <2>3. m \in 0 .. n /\ m \in Nat /\ \A k \in C : k > m
    <3> DEFINE least == Min(C)
    <3>1. least \in 1 .. n - 1 /\ \A k \in C : k \in Int /\ least <= k
      BY <2>0, <2>2
    <3> HIDE DEF least, C
    <3> QED BY <1>0, <3>1 DEF least
  <2>4. BeforeComments(s) = c
    BY <1>3 DEF BeforeComments
  <2> HIDE DEF m
  <2>5. c \in Text /\ Len(c) = m /\ Begins(c, s)
    BY <2>3, BeginIs DEF Text
  <2> HIDE DEF c
  <2>6. ASSUME NEW j \in 1 .. Len(c), ~ InString(c, j), IsComment(c, j) PROVE FALSE
    <3>1. j \in 1 .. n /\ j \in 1 .. Len(c) + 1 /\ ~ (j > m)
      BY <1>0, <2>3, <2>5
    <3>2. ~ InString(s, j)
      BY <2>5, <2>6, <3>1, StartStrings
    <3>3. c[j] = Dash /\ j < Len(c) /\ c[j + 1] = Dash
      BY <2>6 DEF IsComment
    <3> DEFINE i == j + 1
    <3>4. i \in 1 .. Len(c) /\ j < n
      BY <1>0, <2>3, <2>5, <3>3
    <3> HIDE DEF i
    <3>5. s[j] = Dash /\ s[i] = Dash
      BY <2>5, <3>3, <3>4 DEF Begins, i
    <3>6. IsComment(s, j)
      BY <3>4, <3>5 DEF IsComment, i
    <3>7. j \in C
      BY <1>1, <3>1, <3>2, <3>6
    <3> HIDE DEF C
    <3> QED BY <2>3, <3>1, <3>7
  <2> QED BY <2>4, <2>5, <2>6 DEF NoComment
<1> QED BY <1>2, <1>3

LEMMA CompleteIs ==
  ASSUME NEW s \in Text
  PROVE  /\ Complete(s) \in Text /\ Begins(Complete(s), s) /\ Ended(Complete(s))
         /\ \A k \in Len(Complete(s)) + 1 .. Len(s) : s[k] = Semicolon => InString(s, k)
<1> DEFINE n == Len(s)
           E == {i \in Semicolons(s) : ~ InString(s, i)}
<1>0. n \in Nat /\ DOMAIN s = 1 .. n
  BY DEF Text
<1>1. \A k \in 1 .. n : s[k] = Semicolon /\ k \notin E => InString(s, k)
  BY <1>0 DEF Semicolons
<1>2. CASE E = {}
  <2> DEFINE c == <<>>
  <2>1. Complete(s) = c
    BY <1>2 DEF Complete
  <2>2. c \in Text /\ Len(c) = 0
    BY DEF Text
  <2> HIDE DEF c
  <2>3. Begins(c, s) /\ Ended(c)
    BY <1>0, <2>2 DEF Begins, Ended
  <2>4. \A k \in Len(c) + 1 .. n : k \in 1 .. n
    BY <2>2
  <2>5. \A k \in Len(c) + 1 .. n : s[k] = Semicolon => InString(s, k)
    BY <1>1, <1>2, <2>4
  <2> QED BY <2>1, <2>2, <2>3, <2>5
<1>3. CASE E # {}
  <2>0. E \in SUBSET (0 .. n)
    BY <1>0 DEF Semicolons
  <2>1. Max(E) \in E /\ \A k \in E : k <= Max(E)
    <3> HIDE DEF E, n
    <3> QED BY <1>0, <1>3, <2>0, MaxIsGreatest
  <2> DEFINE m == Max(E)
             c == SubSeq(s, 1, m)
  <2>2. Complete(s) = c
    BY <1>3 DEF Complete
  <2>3. m \in 1 .. n /\ s[m] = Semicolon /\ ~ InString(s, m) /\ \A k \in E : k <= m
    BY <1>0, <2>1 DEF Semicolons
  <2> HIDE DEF m
  <2>4. m \in 0 .. n /\ m \in Nat
    BY <2>3
  <2>5. c \in Text /\ Len(c) = m /\ Begins(c, s)
    BY <2>4, BeginIs DEF Text
  <2> HIDE DEF c
  <2>6. Ended(c)
    <3>1. m \in 1 .. Len(c) /\ m \in 1 .. Len(c) + 1
      BY <2>3, <2>5
    <3>2. c[m] = Semicolon
      BY <2>3, <2>5, <3>1 DEF Begins
    <3>3. ~ InString(c, m)
      BY <2>3, <2>5, <3>1, StartStrings
    <3> QED BY <2>5, <3>2, <3>3 DEF Ended
  <2>7. ASSUME NEW k \in m + 1 .. n, s[k] = Semicolon PROVE InString(s, k)
    <3>1. k \in 1 .. n /\ ~ (k <= m)
      BY <2>4
    <3>2. k \notin E
      <4> HIDE DEF E
      <4> QED BY <2>3, <3>1
    <3> QED BY <1>1, <2>7, <3>1, <3>2
  <2> QED BY <2>2, <2>5, <2>6, <2>7
<1> QED BY <1>2, <1>3

LEMMA EndedCalm ==
  ASSUME NEW c \in Text, Ended(c), NoComment(c)
  PROVE  Calm(c, Len(c))
<1> DEFINE n == Len(c)
<1>1. n \in Nat
  BY DEF Text
<1>2. CASE n = 0
  BY <1>2, NoStringYet DEF Calm, NoComment
<1>3. CASE n # 0
  <2>1. n > 0 /\ n >= 1
    BY <1>1, <1>3
  <2>2. c[n] # Quote /\ ~ InString(c, n)
    BY <2>1, CharactersDiffer DEF Ended
  <2> HIDE DEF n
  <2>3. ~ InString(c, n + 1)
    BY <1>1, <2>1, <2>2, NothingTurns
  <2> QED BY <2>3 DEF Calm, NoComment, n
<1> QED BY <1>2, <1>3

(* A newline behind a text changes nothing of what it says.                 *)
LEMMA NewlineAdded ==
  ASSUME NEW s \in Text, Calm(s, Len(s))
  PROVE  /\ Append(s, Newline) \in Text /\ Len(Append(s, Newline)) = Len(s) + 1
         /\ Begins(s, Append(s, Newline)) /\ Append(s, Newline)[Len(s) + 1] = Newline
         /\ Calm(Append(s, Newline), Len(s) + 1)
         /\ Written(Append(s, Newline)) = Written(s)
<1> DEFINE u == Append(s, Newline)
           n == Len(s)
           e == n + 1
<1>1. /\ u \in Text /\ Len(u) = e /\ (\A k \in 1 .. n : u[k] = s[k]) /\ u[e] = Newline /\ n \in Nat
  BY AppendProperties, CharactersDiffer DEF Text
<1> HIDE DEF u
<1>2. Begins(s, u)
  BY <1>1 DEF Begins
<1>3. Newline # Quote /\ Newline # Dash /\ Newline \in White /\ Newline \in Edge
  BY CharactersDiffer DEF Edge, Trail
<1>4. Calm(u, e)
  <2>1. ~ InString(s, e) /\ e \in 1 .. n + 1 /\ e \in Nat /\ e >= 1
    BY <1>1 DEF Calm
  <2>2. ~ InString(u, e)
    BY <1>1, <1>2, <2>1, StartStrings
  <2> HIDE DEF e
  <2>3. ~ InString(u, e + 1)
    BY <1>1, <1>3, <2>1, <2>2, NothingTurns
  <2>4. ASSUME NEW j \in 1 .. e, ~ InString(u, j), IsComment(u, j) PROVE FALSE
    <3> DEFINE i == j + 1
    <3>1. u[j] = Dash /\ j < e /\ u[i] = Dash
      BY <1>1, <2>4 DEF IsComment
    <3>2. j \in 1 .. n /\ j \in 1 .. n + 1 /\ i \in 1 .. e
      BY <1>1, <2>1, <3>1 DEF e
    <3>3. i # e
      BY <1>1, <1>3, <3>1
    <3>4. i \in 1 .. n /\ j < n
      BY <1>1, <3>2, <3>3 DEF e
    <3> HIDE DEF i
    <3>5. s[j] = Dash /\ s[i] = Dash
      BY <1>1, <3>1, <3>2, <3>4
    <3>6. IsComment(s, j)
      BY <3>4, <3>5 DEF IsComment, i
    <3>7. ~ InString(s, j)
      BY <1>1, <1>2, <2>4, <3>2, StartStrings
    <3> QED BY <3>2, <3>6, <3>7 DEF Calm
  <2> QED BY <2>3, <2>4 DEF Calm
<1>5. Matches(s, u, 0, 1, n, {})
  <2>1. /\ 0 \in Int /\ n \in 0 .. n /\ n + 0 \in 0 .. Len(u) /\ 1 \in 1 .. n + 1 /\ 1 + 0 >= 1
        /\ (\A i \in 1 .. n : i + 0 = i) /\ n + 0 + 1 = e /\ ~ (n < n)
    BY <1>1
  <2> HIDE DEF e
  <2>2. \A i \in 1 .. n : u[i + 0] = s[i]
    BY <1>1, <2>1
  <2> QED BY <1>1, <1>3, <2>1, <2>2 DEF Matches
<1> DEFINE K == TokenKinds
<1>6. SameTokens(s, u, 0, 1, n, K)
  <2>1. K \in SUBSET TokenKinds /\ Whole \subseteq K /\ "semicolon" \in K
    BY DEF Whole, TokenKinds
  <2>2. n \in 0 .. Len(s) /\ 1 \in 1 .. n + 1
    BY <1>1
  <2> HIDE DEF K, n
  <2>3. Calm(s, n)
    BY DEF n
  <2> QED BY <1>1, <1>5, <2>1, <2>2, <2>3, NoStringYet, Along
<1>7. PICK x \in Seq(K \X Text) : LexFrom(s)[1] = x \o LexFrom(s)[n + 1] /\ LexFrom(u)[1 + 0] = x \o LexFrom(u)[(n + 1) + 0]
  BY <1>6 DEF SameTokens
<1>8. LexFrom(s)[n + 1] = <<>>
  BY LexJumps
<1>9. LexFrom(u)[e] = <<>>
  <2>1. e \in 1 .. Len(u)
    BY <1>1
  <2> HIDE DEF e
  <2>2. LexFrom(u)[e] = LexFrom(u)[e + 1]
    BY <1>1, <1>3, <2>1, WhiteStep
  <2>3. LexFrom(u)[e + 1] = <<>>
    BY <1>1, LexJumps
  <2> QED BY <2>2, <2>3
<1>10. Lex(u) = Lex(s)
  <2>1. 1 + 0 = 1 /\ (n + 1) + 0 = e
    BY <1>1
  <2> QED BY <1>7, <1>8, <1>9, <2>1 DEF Lex
<1>11. Written(u) = Written(s)
  BY <1>1, <1>10, WrittenIs
<1> QED BY <1>1, <1>2, <1>4, <1>11 DEF u

(* The first two conjuncts of the property.                                 *)
LEMMA BatchAsWritten ==
  ASSUME NEW s \in Text
  PROVE  /\ IsPrefix(Written(Complete(BeforeComments(s))), Read(Batch(Append(s, Newline))))
         /\ Comments(s) = {} /\ Closed(s) => Read(Batch(Append(s, Newline))) = Written(s)
<1> DEFINE u == Append(s, Newline)
<1>1. u \in Text /\ Begins(s, u)
  <2>1. u \in Text /\ Len(u) = Len(s) + 1 /\ (\A k \in 1 .. Len(s) : u[k] = s[k]) /\ Len(s) \in Nat
    BY AppendProperties, CharactersDiffer DEF Text
  <2> QED BY <2>1 DEF Begins
<1>2. IsPrefix(Written(Complete(BeforeComments(s))), Read(Batch(u)))
  <2> DEFINE b == BeforeComments(s)
             c == Complete(b)
  <2>1. b \in Text /\ Begins(b, s) /\ NoComment(b)
    BY BeforeIs
  <2> HIDE DEF b
  <2>2. c \in Text /\ Begins(c, b) /\ Ended(c)
    BY <2>1, CompleteIs
  <2> HIDE DEF c, u
  <2>3. Begins(c, u)
    <3>1. Begins(c, s)
      BY <2>1, <2>2, BeginsOn DEF Text
    <3> QED BY <1>1, <2>2, <3>1, BeginsOn DEF Text
  <2>4. Calm(c, Len(c))
    <3>1. NoComment(c)
      BY <2>1, <2>2, StartNoComment
    <3> QED BY <2>2, <3>1, EndedCalm
  <2>5. IsPrefix(Written(c), Read(Batch(u)))
    BY <1>1, <2>2, <2>3, <2>4, BatchBegins
  <2> QED BY <2>5 DEF b, c
<1>3. ASSUME Comments(s) = {}, Closed(s) PROVE Read(Batch(u)) = Written(s)
  <2>1. Calm(s, Len(s))
    BY <1>3, ClosedCalm
  <2>2. Len(u) = Len(s) + 1 /\ Calm(u, Len(s) + 1) /\ Written(u) = Written(s)
    BY <2>1, NewlineAdded
  <2>3. Calm(u, Len(u))
    BY <2>2
  <2> HIDE DEF u
  <2>4. Read(Batch(u)) = Written(u)
    BY <1>1, <2>3, BatchReads
  <2> QED BY <2>2, <2>4
<1> QED BY <1>2, <1>3

-----------------------------------------------------------------------------
(* At the prompt: a text in which each semicolon ends a statement and its   *)
(* line.                                                                    *)
Lines(w) ==
  \A k \in 1 .. Len(w) : w[k] = Semicolon => ~ InString(w, k) /\ k < Len(w) /\ w[k + 1] = Newline

(* Where the prompt is after i characters of w.                             *)
Waits(w, s, st, i, b) ==
  /\ b \in 0 .. i /\ s.buf = SubSeq(w, b + 1, i) /\ \A k \in b + 1 .. i - 1 : w[k] # Semicolon
  /\ b > 0 => w[b] = Newline
  /\ Reached(w, st, b, Read(s.sent))

LEMMA EnterWaits ==
  ASSUME NEW w \in Text, Calm(w, Len(w)), Lines(w), NEW st, Divides(Lex(w), st), NEW i \in 1 .. Len(w),
         NEW s \in EnterState, NEW b, Waits(w, s, st, i - 1, b)
  PROVE  \E a : Waits(w, Enter(s, w[i]), st, i, a)
<1> DEFINE j == i - 1
           t == Enter(s, w[i])
           v == SubSeq(w, b + 1, i)
<1>1. Len(w) \in Nat /\ i \in Nat /\ i >= 1 /\ i <= Len(w) /\ j \in Nat /\ j + 1 = i
  BY DEF Text
<1>2. /\ b \in 0 .. j /\ s.buf = SubSeq(w, b + 1, j) /\ (\A k \in b + 1 .. j - 1 : w[k] # Semicolon)
      /\ (b > 0 => w[b] = Newline) /\ Reached(w, st, b, Read(s.sent))
  BY DEF Waits
<1>3. s.sent \in Seq(Statement) /\ s.buf \in Text /\ s = [sent |-> s.sent, buf |-> s.buf]
  BY DEF EnterState
<1>4. Append(s.buf, w[i]) = v
  BY <1>2, SubSeqGrows DEF Text
<1>5. v \in Text /\ Len(v) = i - b /\ \A k \in 1 .. i - b : v[k] = w[k + b]
  <2> DEFINE p == b + 1
  <2>1. p \in Int /\ i \in Int /\ \A k \in p .. i : k \in 1 .. Len(w)
    BY <1>1, <1>2
  <2>2. \A k \in p .. i : w[k] \in Characters
    BY <2>1 DEF Text
  <2>3. (IF p <= i THEN i - p + 1 ELSE 0) = i - b /\ i - p + 1 = i - b /\ \A k \in 1 .. i - b : p + k - 1 = k + b
    BY <1>1, <1>2
  <2> HIDE DEF p
  <2>4. /\ SubSeq(w, p, i) \in Seq(Characters)
        /\ Len(SubSeq(w, p, i)) = IF p <= i THEN i - p + 1 ELSE 0
        /\ \A k \in 1 .. i - p + 1 : SubSeq(w, p, i)[k] = w[p + k - 1]
    BY <2>1, <2>2, SubSeqProperties
  <2>5. \A k \in 1 .. i - b : SubSeq(w, p, i)[k] = w[k + b]
    BY <2>3, <2>4
  <2> QED BY <2>3, <2>4, <2>5 DEF p, Text
<1> HIDE DEF v
<1>6. t = IF w[i] = Newline /\ Contains(v, Semicolon)
          THEN [sent |-> Append(s.sent, flatten_sql(v)), buf |-> <<>>]
          ELSE [s EXCEPT !.buf = v]
  BY <1>4 DEF Enter
<1>7. Contains(v, Semicolon) <=> \E k \in b + 1 .. i : w[k] = Semicolon
  <2>1. ASSUME NEW k \in b + 1 .. i, w[k] = Semicolon PROVE Contains(v, Semicolon)
    <3> DEFINE h == k - b
    <3>1. h \in 1 .. Len(v) /\ h \in 1 .. i - b /\ h + b = k
      BY <1>1, <1>2, <1>5
    <3> HIDE DEF h
    <3>2. v[h] = Semicolon
      BY <1>5, <2>1, <3>1
    <3> QED BY <3>1, <3>2 DEF Contains
  <2>2. ASSUME Contains(v, Semicolon) PROVE \E k \in b + 1 .. i : w[k] = Semicolon
    <3>1. PICK h \in 1 .. Len(v) : v[h] = Semicolon
      BY <2>2 DEF Contains
    <3>2. h \in 1 .. i - b /\ h + b \in b + 1 .. i
      BY <1>1, <1>2, <1>5
    <3>3. w[h + b] = Semicolon
      BY <1>5, <3>1, <3>2
    <3> QED BY <3>2, <3>3
  <2> QED BY <2>1, <2>2
<1> HIDE DEF t, j
<1>8. CASE ~ (w[i] = Newline /\ Contains(v, Semicolon))
  <2>1. t.sent = s.sent /\ t.buf = v
    <3>1. t = [s EXCEPT !.buf = v]
      BY <1>6, <1>8
    <3> QED BY <1>3, <3>1
  <2>2. ASSUME NEW k \in b + 1 .. i - 1, w[k] = Semicolon PROVE FALSE
    <3>0. b \in Nat /\ b <= j /\ k \in Int /\ b + 1 <= k /\ k <= i - 1
      BY <1>1, <1>2
    <3>1. k \in 1 .. Len(w) /\ k \in b + 1 .. i
      BY ONLY <1>1, <3>0
    <3>2. k + 1 = i
      <4>1. k \notin b + 1 .. j - 1
        BY <1>2, <2>2
      <4> QED BY ONLY <1>1, <3>0, <4>1
    <3>3. w[k + 1] = Newline
      BY <2>2, <3>1 DEF Lines
    <3>4. w[i] = Newline
      BY <3>2, <3>3
    <3>5. Contains(v, Semicolon)
      BY <1>7, <2>2, <3>1
    <3> QED BY <1>8, <3>4, <3>5
  <2>3. b \in 0 .. i
    BY <1>1, <1>2
  <2>4. Waits(w, t, st, i, b)
    BY <1>2, <2>1, <2>2, <2>3 DEF Waits, v
  <2> QED BY <2>4 DEF t
<1>9. CASE w[i] = Newline /\ Contains(v, Semicolon)
  <2> DEFINE e == i - 2
             r == Read(s.sent)
             y == SubSeq(w, b + 1, e)
             q == flatten_sql(v)
  <2>1. t.sent = Append(s.sent, q) /\ t.buf = <<>>
    BY <1>6, <1>9
  <2>2. /\ w[e + 1] = Semicolon /\ e \in 0 .. Len(w) /\ b \in 0 .. e /\ e < Len(w) /\ e + 1 = j /\ e + 1 \in 1 .. Len(w)
        /\ (\A k \in b + 1 .. e : k \in b + 1 .. j - 1) /\ e + 1 < Len(w) /\ (e + 1) + 1 = i
    <3>1. PICK k \in b + 1 .. i : w[k] = Semicolon
      BY <1>7, <1>9
    <3>2. k # i
      BY <1>9, <3>1, CharactersDiffer
    <3>3. k \notin b + 1 .. j - 1
      BY <1>2, <3>1
    <3>4. k = e + 1
      BY <1>1, <1>2, <3>2, <3>3
    <3> QED BY <1>1, <1>2, <3>1, <3>4
  <2> HIDE DEF e
  <2>3. Piece(w, b, e)
    <3>1. ~ InString(w, e + 1)
      BY <2>2 DEF Lines
    <3>2. ~ InString(w, b + 1)
      BY <1>2 DEF Reached
    <3>3. NoEnd(w, b + 1, e)
      BY <1>2, <2>2 DEF NoEnd
    <3>4. w[e + 1] \in Edge
      BY <2>2 DEF Edge, Trail
    <3> QED BY <2>2, <3>1, <3>2, <3>3, <3>4, CalmPiece
  <2>4. /\ y \in Text /\ Len(y) = e - b /\ (\A k \in 1 .. e - b : y[k] = w[k + b])
        /\ Calm(y, Len(y)) /\ Lex(y) \in Seq(Whole \X Text)
    <3> HIDE DEF r, q
    <3>1. y \in Text /\ Len(y) = e - b /\ \A k \in 1 .. e - b : y[k] = w[k + b]
      BY ONLY <2>3, w \in Text, PieceIs
    <3>2. Calm(y, Len(y))
      BY ONLY <2>3, w \in Text, PieceCalm
    <3>3. Lex(y) \in Seq(Whole \X Text)
      BY ONLY <2>3, w \in Text, PieceTokens
    <3> QED BY <3>1, <3>2, <3>3
  <2> HIDE DEF y
  <2>5. Execution(q) = ReadsAs(w, b, e)
    <3> DEFINE n == e - b
    <3>1. n \in Nat /\ n + 2 = i - b /\ n + 1 + b = e + 1 /\ n + 2 + b = i
      BY <1>1, <1>2, <2>2
    <3> HIDE DEF n
    <3>2. Carries(v, y, 0, n)
      <4>1. 0 \in 0 .. Len(y) /\ n \in 0 .. Len(y) - 0 /\ n <= Len(v) /\ 0 + n + 1 .. Len(y) = {} /\ 1 .. 0 = {}
        BY <1>5, <2>4, <3>1 DEF n
      <4>2. ASSUME NEW k \in 1 .. n PROVE v[k] = y[k + 0]
        <5>1. k \in 1 .. i - b /\ k + 0 = k /\ k \in 1 .. e - b
          BY <3>1 DEF n
        <5> QED BY <1>5, <2>4, <5>1
      <4>3. v[n + 1] = Semicolon /\ v[n + 2] = Newline
        <5> DEFINE k1 == n + 1
                   k2 == n + 2
        <5>1. k1 \in 1 .. i - b /\ k2 \in 1 .. i - b /\ k1 + b = e + 1 /\ k2 + b = i
          BY <3>1
        <5> HIDE DEF k1, k2
        <5>2. v[k1] = w[k1 + b] /\ v[k2] = w[k2 + b]
          BY <1>5, <5>1
        <5>3. v[k1] = Semicolon /\ v[k2] = Newline
          BY <1>9, <2>2, <5>1, <5>2
        <5> QED BY <5>3 DEF k1, k2
      <4>4. \A k \in n + 1 .. Len(v) : k = n + 1 \/ k = n + 2
        BY <1>5, <3>1
      <4>5. \A k \in n + 1 .. Len(v) : v[k] \in Trail
        BY <4>3, <4>4 DEF Trail
      <4> QED BY <4>1, <4>2, <4>5 DEF Carries
    <3>3. Execution(flatten_sql(v)) = OneLine(Seen(Lex(y)))
      BY <1>5, <2>4, <3>2, RequestIs
    <3> QED BY <3>3 DEF ReadsAs, y
  <2> DEFINE z == Given(r, ReadsAs(w, b, e))
  <2>6. Reached(w, st, i, z)
    <3>1. Reached(w, st, e + 1, z)
      <4> HIDE DEF r
      <4> QED BY <1>2, <2>2, <2>3, ReachedSemicolon DEF r
    <3> DEFINE a == e + 1
    <3>2. a < Len(w) /\ w[a + 1] \in White /\ a + 1 = i
      BY <1>9, <2>2, CharactersDiffer
    <3>3. Reached(w, st, a, z)
      BY <3>1
    <3> HIDE DEF a, z
    <3>4. Reached(w, st, a + 1, z)
      BY <3>2, <3>3, ReachedWhite
    <3> QED BY <3>2, <3>4
  <2>7. Read(Append(s.sent, q)) = z
    <3>1. q \in Statement
      BY <1>5, FlattenIs
    <3> HIDE DEF q
    <3>2. Read(Append(s.sent, q)) = Given(Read(s.sent), Execution(q))
      BY <1>3, <3>1, ReadAppend
    <3> QED BY <2>5, <3>2 DEF q
  <2> HIDE DEF z, q
  <2>8. Waits(w, t, st, i, i)
    <3>1. SubSeq(w, i + 1, i) = <<>> /\ i \in 0 .. i /\ i + 1 .. i - 1 = {}
      BY <1>1, SubSeqEmpty
    <3> QED BY <1>9, <2>1, <2>6, <2>7, <3>1 DEF Waits
  <2> QED BY <2>8 DEF t
<1> QED BY <1>8, <1>9

LEMMA PromptWaits ==
  ASSUME NEW w \in Text, NEW u \in Text, Begins(w, u), Calm(w, Len(w)), Lines(w),
         NEW st, Divides(Lex(w), st), NEW ct, Enters(u, ct)
  PROVE  ct[Len(w)] \in EnterState /\ \E b : Waits(w, ct[Len(w)], st, Len(w), b)
<1> DEFINE n == Len(w)
           S == {i \in 0 .. n : \E b : Waits(w, ct[i], st, i, b)}
<1>0. n \in Nat /\ n <= Len(u) /\ Len(u) \in Nat
  BY DEF Text, Begins
<1>1. 0 \in S
  <2> DEFINE s == ct[0]
  <2>1. s = EnterStart
    BY DEF Enters
  <2> HIDE DEF s
  <2>2. s.sent = <<>> /\ s.buf = <<>>
    BY <2>1 DEF EnterStart
  <2>3. Reached(w, st, 0, <<>>)
    BY ReachedStart
  <2>4. SubSeq(w, 0 + 1, 0) = <<>> /\ 0 \in 0 .. 0 /\ 0 + 1 .. 0 - 1 = {} /\ ~ (0 > 0)
    BY SubSeqEmpty
  <2>5. Waits(w, s, st, 0, 0)
    BY <2>2, <2>3, <2>4, ReadNothing DEF Waits
  <2> QED BY <1>0, <2>5 DEF s
<1>2. ASSUME NEW k \in 0 .. n - 1, k \in S PROVE k + 1 \in S
  <2> DEFINE i == k + 1
  <2>1. i \in 1 .. Len(w) /\ i \in 1 .. Len(u) /\ i - 1 = k /\ k \in 0 .. Len(u) /\ i \in 0 .. n
    BY <1>0
  <2> HIDE DEF i
  <2>2. ct[i] = Enter(ct[k], w[i]) /\ ct[k] \in EnterState
    BY <2>1 DEF Enters, Begins
  <2> DEFINE s == ct[k]
  <2>3. PICK b : Waits(w, s, st, i - 1, b)
    BY <1>2, <2>1
  <2>4. s \in EnterState
    BY <2>2
  <2> HIDE DEF s
  <2>5. \E a : Waits(w, Enter(s, w[i]), st, i, a)
    BY <2>1, <2>3, <2>4, EnterWaits
  <2>6. i \in S
    BY <2>1, <2>2, <2>5 DEF s
  <2> QED BY <2>6 DEF i
<1>3. 0 .. n \subseteq S
  <2> HIDE DEF S, n
  <2> QED BY <1>0, <1>1, <1>2, UpTo
<1>4. n \in 0 .. n /\ n \in 0 .. Len(u)
  BY <1>0
<1>5. \E b : Waits(w, ct[n], st, n, b)
  BY <1>3, <1>4
<1>6. ct[n] \in EnterState
  BY <1>4 DEF Enters
<1> QED BY <1>5, <1>6

(* Behind the end of a line with a semicolon nothing waits.                 *)
LineEnded(w) == Len(w) > 0 => Len(w) > 1 /\ w[Len(w)] = Newline /\ w[Len(w) - 1] = Semicolon

LEMMA PromptReads ==
  ASSUME NEW w \in Text, NEW u \in Text, Begins(w, u), Calm(w, Len(w)), Lines(w), LineEnded(w),
         NEW ct, Enters(u, ct)
  PROVE  ct[Len(w)].buf = <<>> /\ Read(ct[Len(w)].sent) = Written(w)
<1> DEFINE n == Len(w)
           s == ct[n]
<1>0. n \in Nat /\ Lex(w) \in Seq(Tokens)
  BY LexSeq
<1>1. PICK st : Divides(Lex(w), st) /\ Parts(Lex(w)) = Given(st[Len(Lex(w))].out, Seen(st[Len(Lex(w))].cur))
  BY <1>0, PartsIs
<1>2. PICK b : Waits(w, s, st, n, b)
  BY <1>1, PromptWaits
<1> HIDE DEF s
<1>3. b \in 0 .. n /\ s.buf = SubSeq(w, b + 1, n) /\ (\A k \in b + 1 .. n - 1 : w[k] # Semicolon)
      /\ (b > 0 => w[b] = Newline) /\ Reached(w, st, b, Read(s.sent))
  BY <1>2 DEF Waits
<1>4. b = n
  <2> SUFFICES ASSUME b # n PROVE FALSE
    OBVIOUS
  <2> DEFINE e == n - 1
  <2>1. n > 0 /\ b \in Nat /\ b < n
    BY <1>0, <1>3
  <2>2. n > 1 /\ w[e] = Semicolon
    BY <2>1 DEF LineEnded
  <2>3. e \notin b + 1 .. e
    BY <1>3, <2>2
  <2>4. b = e /\ b > 0
    BY ONLY <1>0, <2>1, <2>2, <2>3
  <2> QED BY <1>3, <2>2, <2>4, CharactersDiffer
<1>5. s.buf = <<>>
  BY <1>0, <1>3, <1>4, SubSeqEmpty
<1>6. Reached(w, st, n, Read(s.sent))
  BY <1>3, <1>4
<1> DEFINE r == Read(s.sent)
<1> HIDE DEF r
<1>7. Written(w) = r
  BY <1>1, <1>6, WrittenReached DEF r
<1> QED BY <1>5, <1>7 DEF s, r

(* Lines without a semicolon are kept for ever.                             *)
LEMMA PromptKeeps ==
  ASSUME NEW u \in Text, NEW ct, Enters(u, ct), NEW m \in 0 .. Len(u), ct[m].buf = <<>>,
         \A k \in m + 1 .. Len(u) : u[k] # Semicolon
  PROVE  ct[Len(u)].sent = ct[m].sent
<1> DEFINE n == Len(u) - m
           o == ct[m].sent
           Rests(s) == s.sent = o /\ ~ Contains(s.buf, Semicolon)
           S == {i \in 0 .. n : Rests(ct[m + i])}
<1>0. n \in Nat /\ m \in Nat /\ Len(u) \in Nat /\ m + n = Len(u) /\ m + 0 = m
  BY DEF Text
<1>1. 0 \in S
  <2>1. ~ Contains(ct[m].buf, Semicolon)
    BY DEF Contains
  <2>2. Rests(ct[m + 0])
    BY <1>0, <2>1
  <2> QED BY <1>0, <2>2
<1>2. ASSUME NEW k \in 0 .. n - 1, k \in S PROVE k + 1 \in S
  <2> DEFINE j == m + k
             i == j + 1
             s == ct[j]
             v == Append(s.buf, u[i])
  <2>1. i \in 1 .. Len(u) /\ i \in m + 1 .. Len(u) /\ i - 1 = j /\ j \in 0 .. Len(u) /\ m + (k + 1) = i /\ k + 1 \in 0 .. n
    BY <1>0
  <2>2. Rests(s)
    BY <1>2
  <2> HIDE DEF i, j
  <2>3. ct[i] = Enter(s, u[i]) /\ s \in EnterState
    BY <2>1 DEF Enters
  <2> HIDE DEF s
  <2>4. s.buf \in Text /\ s = [sent |-> s.sent, buf |-> s.buf] /\ u[i] # Semicolon
    BY <2>1, <2>3 DEF EnterState
  <2>5. ~ Contains(v, Semicolon)
    <3>1. Len(v) = Len(s.buf) + 1 /\ Len(s.buf) \in Nat /\ v[Len(s.buf) + 1] = u[i]
          /\ \A h \in 1 .. Len(s.buf) : v[h] = s.buf[h]
      BY <2>4 DEF Text
    <3> SUFFICES ASSUME NEW h \in 1 .. Len(v), v[h] = Semicolon PROVE FALSE
      BY <2>4, AppendProperties DEF Contains, Text
    <3>2. h \in 1 .. Len(s.buf) \/ h = Len(s.buf) + 1
      BY <3>1
    <3>3. h \in 1 .. Len(s.buf)
      BY <2>4, <3>1, <3>2
    <3>4. Contains(s.buf, Semicolon)
      BY <2>4, <3>1, <3>3 DEF Contains, Text
    <3> QED BY <2>2, <3>4
  <2>6. Enter(s, u[i]) = [s EXCEPT !.buf = v]
    BY <2>5 DEF Enter
  <2> HIDE DEF v
  <2>7. Enter(s, u[i]).sent = s.sent /\ Enter(s, u[i]).buf = v
    BY <2>4, <2>6
  <2>8. Rests(ct[i])
    BY <2>2, <2>3, <2>5, <2>7
  <2> QED BY <2>1, <2>8
<1>3. 0 .. n \subseteq S
  <2> HIDE DEF S, n
  <2> QED BY <1>0, <1>1, <1>2, UpTo
<1>4. n \in S
  <2>1. n \in 0 .. n
    BY <1>0
  <2> HIDE DEF S, n
  <2> QED BY <1>3, <2>1
<1> QED BY <1>0, <1>4

(* The whole lines of a text that end all its statements.                   *)
WholeLines(w, c, u) ==
  /\ w \in Text /\ Begins(w, u) /\ Len(c) <= Len(w)
  /\ Calm(w, Len(w)) /\ Lines(w) /\ LineEnded(w) /\ Written(w) = Written(c)

LEMMA LinesWhole ==
  ASSUME NEW c \in Text, NEW u \in Text, Begins(c, u), Ended(c), Calm(c, Len(c)),
         \A k \in 1 .. Len(c) : c[k] = Semicolon => ~ InString(c, k) /\ k < Len(u) /\ u[k + 1] = Newline
  PROVE  \E w : WholeLines(w, c, u)
<1> DEFINE m == Len(c)
<1>0. m \in Nat /\ Len(u) \in Nat /\ m <= Len(u) /\ \A k \in 1 .. m : u[k] = c[k]
  BY DEF Text, Begins
<1>1. CASE m = 0
  <2>1. Lines(c) /\ LineEnded(c) /\ m <= m
    BY <1>0, <1>1 DEF Lines, LineEnded
  <2> QED BY <2>1 DEF WholeLines
<1>2. CASE m # 0
  <2> DEFINE w == Append(c, Newline)
             e == m + 1
  <2>1. /\ w \in Text /\ Len(w) = e /\ Begins(c, w) /\ w[e] = Newline /\ Calm(w, e) /\ Written(w) = Written(c)
    BY NewlineAdded
  <2> HIDE DEF w
  <2>2. m \in 1 .. m /\ c[m] = Semicolon /\ m > 0
    BY <1>0, <1>2 DEF Ended
  <2>3. u[e] = Newline /\ e <= Len(u) /\ e \in Nat /\ \A k \in 1 .. e : k \in 1 .. m \/ k = e
    BY <1>0, <2>2
  <2>4. \A k \in 1 .. m : w[k] = c[k]
    BY <2>1 DEF Begins
  <2>5. Begins(w, u)
    <3>1. \A k \in 1 .. e : u[k] = w[k]
      BY <1>0, <2>1, <2>3, <2>4
    <3> HIDE DEF e
    <3> QED BY <2>1, <2>3, <3>1 DEF Begins
  <2>6. ASSUME NEW k \in 1 .. e, w[k] = Semicolon
        PROVE  ~ InString(w, k) /\ k < e /\ w[k + 1] = Newline
    <3> DEFINE i == k + 1
    <3>1. k # e
      BY <2>1, <2>6, CharactersDiffer
    <3>2. k \in 1 .. m /\ k \in 1 .. m + 1 /\ k < e /\ i \in 1 .. e
      BY <1>0, <2>3, <3>1
    <3>3. c[k] = Semicolon
      BY <2>4, <2>6, <3>2
    <3>4. ~ InString(c, k) /\ u[i] = Newline
      BY <3>2, <3>3
    <3>5. ~ InString(w, k)
      BY <2>1, <3>2, <3>4, StartStrings
    <3> HIDE DEF i, e
    <3>6. w[i] = Newline
      BY <2>1, <2>5, <3>2, <3>4 DEF Begins
    <3> QED BY <3>2, <3>5, <3>6 DEF i
  <2>7. Lines(w)
    BY <2>1, <2>6 DEF Lines
  <2>8. LineEnded(w)
    <3>1. e > 1 /\ e - 1 = m
      BY <1>0, <2>2
    <3>2. w[m] = Semicolon
      BY <2>2, <2>4
    <3> QED BY <2>1, <3>1, <3>2 DEF LineEnded
  <2>9. m <= e
    BY <1>0
  <2> HIDE DEF e
  <2>10. WholeLines(w, c, u)
    BY <2>1, <2>5, <2>7, <2>8, <2>9 DEF WholeLines
  <2> QED BY <2>10
<1> QED BY <1>1, <1>2

(* The last conjunct of the property.                                       *)
LEMMA InteractiveAsWritten ==
  ASSUME NEW s \in Text, Comments(s) = {}, Closed(s), EndsLines(s)
  PROVE  Read(Interactive(Append(s, Newline))) = Written(Complete(s))
<1> DEFINE u == Append(s, Newline)
           c == Complete(s)
           n == Len(s)
<1>1. n \in Nat /\ Calm(s, n)
  BY ClosedCalm DEF Text
<1>2. u \in Text /\ Len(u) = n + 1 /\ Begins(s, u) /\ u[n + 1] = Newline
  BY <1>1, NewlineAdded
<1> HIDE DEF u
<1>3. /\ c \in Text /\ Begins(c, s) /\ Ended(c)
      /\ \A k \in Len(c) + 1 .. n : s[k] = Semicolon => InString(s, k)
  BY CompleteIs
<1> HIDE DEF c
<1>4. Begins(c, u)
  BY <1>2, <1>3, BeginsOn DEF Text
<1>5. Calm(c, Len(c))
  <2>1. NoComment(s)
    BY <1>1 DEF Calm, NoComment
  <2>2. NoComment(c)
    BY <1>3, <2>1, StartNoComment
  <2> QED BY <1>3, <2>2, EndedCalm
<1>6. \A k \in 1 .. n : s[k] = Semicolon => ~ InString(s, k) /\ (k = n \/ s[k + 1] = Newline)
  BY DEF EndsLines, Semicolons, Text
<1>7. Len(c) \in Nat /\ Len(c) <= n
  BY <1>3 DEF Begins, Text
<1>8. ASSUME NEW k \in 1 .. Len(c), c[k] = Semicolon
      PROVE  ~ InString(c, k) /\ k < Len(u) /\ u[k + 1] = Newline
  <2> DEFINE i == k + 1
  <2>1. k \in 1 .. n /\ k \in 1 .. Len(c) + 1 /\ k < n + 1 /\ (k # n => i \in 1 .. n) /\ (k = n => i = n + 1)
    BY <1>1, <1>7
  <2>2. s[k] = Semicolon
    BY <1>3, <1>8 DEF Begins
  <2>3. ~ InString(s, k) /\ (k = n \/ s[i] = Newline)
    BY <1>6, <2>1, <2>2
  <2>4. ~ InString(c, k)
    BY <1>3, <2>1, <2>3, StartStrings
  <2> HIDE DEF i
  <2>5. u[i] = Newline
    BY <1>2, <2>1, <2>3 DEF Begins
  <2> QED BY <1>2, <2>1, <2>4, <2>5 DEF i
<1>9. PICK w : WholeLines(w, c, u)
  BY <1>2, <1>3, <1>4, <1>5, <1>8, LinesWhole
<1>10. PICK ct : Enters(u, ct) /\ Interactive(u) = ct[Len(u)].sent
  BY <1>2, InteractiveIs
<1> DEFINE m == Len(w)
<1>11. /\ w \in Text /\ Begins(w, u) /\ Calm(w, m) /\ Lines(w) /\ LineEnded(w) /\ Written(w) = Written(c)
       /\ m \in Nat /\ Len(c) <= m /\ m <= Len(u)
  BY <1>9 DEF WholeLines, Begins, Text
<1>12. ct[m].buf = <<>> /\ Read(ct[m].sent) = Written(w)
  BY <1>2, <1>10, <1>11, PromptReads
<1>13. ASSUME NEW k \in m + 1 .. Len(u), u[k] = Semicolon PROVE FALSE
  <2>1. k \in 1 .. n + 1 /\ k \in Len(c) + 1 .. n + 1 /\ (k # n + 1 => k \in 1 .. n /\ k \in Len(c) + 1 .. n)
    BY <1>1, <1>2, <1>7, <1>11
  <2>2. k # n + 1
    BY <1>2, <1>13, CharactersDiffer
  <2>3. s[k] = Semicolon
    BY <1>2, <1>13, <2>1, <2>2 DEF Begins
  <2> QED BY <1>3, <1>6, <2>1, <2>2, <2>3
<1>14. m \in 0 .. Len(u)
  BY <1>2, <1>11
<1> HIDE DEF m
<1>15. ct[Len(u)].sent = ct[m].sent
  BY <1>2, <1>10, <1>12, <1>13, <1>14, PromptKeeps
<1>16. Read(Interactive(u)) = Written(c)
  BY <1>10, <1>11, <1>12, <1>15
<1> QED BY <1>16 DEF u, c

-----------------------------------------------------------------------------
(* What the server executes is what the file says, read as the lexer reads  *)
(* it, whichever file is typed: from a file, everything complete in front   *)
(* of the first comment, and all of it if it has no comment and its strings *)
(* are closed; at the prompt, such a file's complete statements if each of  *)
(* its semicolons ends a statement and a line.                              *)
THEOREM StatementsAreAsWritten == TextSpec => []StatementsAsWritten
<1>1. JournalHolds => StatementsAsWritten
  <2> SUFFICES ASSUME JournalHolds PROVE StatementsAsWritten
    OBVIOUS
  <2>1. file \in Text
    <3>1. file \in Seq(Typed)
      BY DEF JournalHolds, TextTypes
    <3>2. Typed \subseteq Characters
      BY DEF Characters
    <3> HIDE DEF JournalHolds
    <3> QED BY ONLY <3>1, <3>2 DEF Text
  <2>2. /\ IsPrefix(Written(Complete(BeforeComments(file))), Read(Batch(Append(file, Newline))))
        /\ Comments(file) = {} /\ Closed(file) => Read(Batch(Append(file, Newline))) = Written(file)
    BY <2>1, BatchAsWritten
  <2>3. Comments(file) = {} /\ Closed(file) /\ EndsLines(file)
          => Read(Interactive(Append(file, Newline))) = Written(Complete(file))
    BY <2>1, InteractiveAsWritten
  <2> QED BY <2>2, <2>3 DEF StatementsAsWritten
<1> QED BY <1>1, JournalInit, JournalStep, PTL DEF TextSpec

-----------------------------------------------------------------------------
(* Pieces and where they are in the tokens.                                 *)
Predicates == Comparisons \cup Ranges \cup Likes \cup Trues
Symbols == UNION {{p[i] : i \in 1 .. Len(p)} : p \in Pieces}

LEMMA PieceShape ==
  ASSUME NEW p \in Pieces
  PROVE  p \in Seq(Symbols) /\ Len(p) \in Nat /\ Len(p) >= 1
<1>1. p \in Seq({p[i] : i \in 1 .. Len(p)}) /\ Len(p) \in Nat /\ Len(p) >= 1
  <2>1. CASE p \in Comparisons \cup Trues
    <3>1. \E x, y, z : p = <<x, y, z>>
      BY <2>1 DEF Comparisons, Trues
    <3> QED BY <3>1
  <2>2. CASE p \in Likes
    <3>1. \E x, y, z : p = <<x, y, z>>
      BY <2>2 DEF Likes
    <3> QED BY <3>1
  <2>3. CASE p \in Ranges
    <3>1. \E x, y, z, v, w : p = <<x, y, z, v, w>>
      BY <2>3 DEF Ranges
    <3> QED BY <3>1
  <2>4. CASE p \in {<<t>> : t \in {Kw("WHERE"), Kw("AND"), Kw("OR"), LParen, RParen, <<"ident", "WERE">>}}
    <3>1. \E x : p = <<x>>
      BY <2>4
    <3> QED BY <3>1
  <2> QED BY <2>1, <2>2, <2>3, <2>4 DEF Pieces
<1>2. {p[i] : i \in 1 .. Len(p)} \subseteq Symbols
  BY DEF Symbols
<1> QED BY <1>1, <1>2, SeqMonotonic

(* f[i] is what the first i pieces consist of.                              *)
Flats(d, f) ==
  /\ f[0] = <<>> /\ \A i \in 1 .. Len(d) : f[i] = f[i - 1] \o d[i]
  /\ \A i \in 0 .. Len(d) : f[i] \in Seq(Symbols)

LEMMA FlatIs ==
  ASSUME NEW d \in Seq(Pieces)
  PROVE  \E f : Flats(d, f) /\ FlattenSeq(d) = f[Len(d)]
<1> DEFINE n == Len(d)
           D == 1 .. n
           St == Seq(Symbols)
           move == [i \in D |-> [x \in St |-> x \o d[i]]]
           Fits(f) == f = [i \in 1 .. Len(d) |-> IF i = 1 THEN d[i] ELSE f[i - 1] \o d[i]]
           F == CHOOSE f : Fits(f)
<1>0. n \in Nat /\ \A i \in D : d[i] \in Pieces /\ d[i] \in St
  BY PieceShape
<1>1. \A i \in D : \A x \in St : move[i][x] = x \o d[i] /\ move[i][x] \in St
  BY <1>0, ConcatProperties
<1>2. <<>> \in St
  OBVIOUS
<1> HIDE DEF move, St
<1>3. PICK g : Folds(g, n, St, <<>>, move)
  <2> HIDE DEF n
  <2> QED BY <1>0, <1>1, <1>2, FoldExists DEF D
<1>4. \A i \in D : g[i - 1] \in St /\ g[i] \in St /\ g[i] = g[i - 1] \o d[i] /\ g[i] = move[i][g[i - 1]]
  <2>1. \A i \in D : i \in 0 .. n /\ i - 1 \in 0 .. n
    BY <1>0
  <2>2. \A i \in D : g[i - 1] \in St /\ g[i] \in St /\ g[i] = move[i][g[i - 1]]
    <3> HIDE DEF n
    <3> QED BY <1>3, <2>1 DEF Folds, D
  <2> HIDE DEF D
  <2> QED BY <1>1, <2>2
<1>5. CASE n = 0
  <2>1. FlattenSeq(d) = <<>> /\ d = <<>>
    BY <1>5 DEF FlattenSeq
  <2>2. Flats(d, g) /\ g[0] = <<>>
    BY <1>3, <1>5 DEF Flats, Folds, St
  <2> QED BY <1>5, <2>1, <2>2
<1>6. CASE n # 0
  <2> DEFINE h == [i \in D |-> g[i]]
  <2>1. ASSUME NEW i \in D PROVE h[i] = IF i = 1 THEN d[i] ELSE h[i - 1] \o d[i]
    <3>1. CASE i = 1
      <4>1. g[0] = <<>>
        BY <1>3 DEF Folds
      <4>2. i - 1 = 0
        BY <3>1
      <4>3. g[i] = <<>> \o d[i]
        BY <1>4, <4>1, <4>2
      <4> QED BY <1>0, <3>1, <4>3, ConcatEmptySeq DEF St
    <3>2. CASE i # 1
      <4>1. i - 1 \in D
        BY <3>2
      <4> HIDE DEF D
      <4> QED BY <1>4, <3>2, <4>1
    <3> QED BY <3>1, <3>2
  <2>2. h = [i \in D |-> IF i = 1 THEN d[i] ELSE h[i - 1] \o d[i]]
    <3>1. h = [i \in D |-> h[i]]
      OBVIOUS
    <3> HIDE DEF h, D
    <3> QED BY <2>1, <3>1
  <2>3. Fits(F)
    <3>1. Fits(h)
      BY <2>2
    <3> HIDE DEF Fits, h
    <3> QED BY <3>1
  <2>4. FlattenSeq(d) = F[n]
    BY <1>6 DEF FlattenSeq
  <2> HIDE DEF F
  <2>5. \A i \in D : F[i] = IF i = 1 THEN d[i] ELSE F[i - 1] \o d[i]
    <3>1. F = [i \in D |-> IF i = 1 THEN d[i] ELSE F[i - 1] \o d[i]]
      BY <2>3
    <3> HIDE DEF D
    <3> QED BY <3>1
  <2> DEFINE S == {i \in 0 .. n : i # 0 => F[i] = g[i]}
  <2>6. ASSUME NEW k \in 0 .. n - 1, k \in S PROVE k + 1 \in S
    <3> DEFINE i == k + 1
    <3>1. i \in D /\ i - 1 = k /\ i \in 0 .. n /\ (i = 1 <=> k = 0)
      BY <1>0
    <3> HIDE DEF i
    <3>2. CASE k = 0
      <4>1. i \in D /\ h[i] = d[i] /\ F[i] = d[i] /\ h[i] = g[i]
        <5> HIDE DEF D
        <5>1. h[i] = g[i]
          BY <3>1
        <5> HIDE DEF h
        <5> QED BY <2>1, <2>5, <3>1, <3>2, <5>1
      <4> QED BY <3>1, <4>1 DEF i
    <3>3. CASE k # 0
      <4>1. F[i] = F[k] \o d[i] /\ g[i] = g[k] \o d[i]
        <5> HIDE DEF D
        <5> QED BY <1>4, <2>5, <3>1, <3>3
      <4>2. F[k] = g[k]
        BY <2>6, <3>3
      <4>3. i \in S
        BY <3>1, <4>1, <4>2
      <4> QED BY <4>3 DEF i
    <3> QED BY <3>2, <3>3
  <2>7. 0 \in S
    BY <1>0
  <2>8. 0 .. n \subseteq S
    <3> HIDE DEF S, n
    <3> QED BY <1>0, <2>6, <2>7, UpTo
  <2>9. F[n] = g[n]
    BY <1>0, <1>6, <2>8
  <2>10. Flats(d, g)
    <3>1. g[0] = <<>> /\ \A i \in 0 .. n : g[i] \in St
      BY <1>3 DEF Folds
    <3>2. \A i \in 1 .. n : g[i] = g[i - 1] \o d[i]
      BY <1>4
    <3> QED BY <3>1, <3>2 DEF Flats, St
  <2> QED BY <2>4, <2>9, <2>10
<1> QED BY <1>5, <1>6

LEMMA FlatsAlike ==
  ASSUME NEW d \in Seq(Pieces), NEW e \in Seq(Pieces), NEW f, Flats(d, f), NEW g, Flats(e, g),
         NEW n \in 0 .. Len(d), n <= Len(e), \A i \in 1 .. n : d[i] = e[i]
  PROVE  \A i \in 0 .. n : f[i] = g[i]
<1> DEFINE S == {i \in 0 .. n : f[i] = g[i]}
<1>0. n \in Nat /\ Len(d) \in Nat /\ Len(e) \in Nat
  OBVIOUS
<1>1. 0 \in S
  BY <1>0 DEF Flats
<1>2. ASSUME NEW k \in 0 .. n - 1, k \in S PROVE k + 1 \in S
  <2> DEFINE i == k + 1
  <2>1. i \in 1 .. n /\ i - 1 = k /\ i \in 1 .. Len(d) /\ i \in 1 .. Len(e) /\ i \in 0 .. n
    BY <1>0
  <2> HIDE DEF i
  <2>2. f[i] = f[k] \o d[i] /\ g[i] = g[k] \o d[i] /\ f[k] = g[k]
    BY <1>2, <2>1 DEF Flats
  <2>3. i \in S
    BY <2>1, <2>2
  <2> QED BY <2>3 DEF i
<1>3. 0 .. n \subseteq S
  <2> HIDE DEF S
  <2> QED BY <1>0, <1>1, <1>2, UpTo
<1> QED BY <1>3

(* The k-th piece ends at b[k] in the tokens.                               *)
Laid(c, ts, b) ==
  /\ b[0] = 0 /\ \A k \in 0 .. Len(c) : b[k] \in 0 .. Len(ts)
  /\ b[Len(c)] = Len(ts)
  /\ \A k \in 1 .. Len(c) : /\ b[k] = b[k - 1] + Len(c[k])
                            /\ \A j \in 1 .. Len(c[k]) : ts[b[k - 1] + j] = c[k][j]

FlatsGrow(d, f) ==
  \A m \in 0 .. Len(d) : \A k \in 1 .. m :
    /\ Len(f[k]) = Len(f[k - 1]) + Len(d[k]) /\ Len(f[k]) <= Len(f[m])
    /\ \A j \in 1 .. Len(d[k]) : f[m][Len(f[k - 1]) + j] = d[k][j]

LEMMA FlatPrefix ==
  ASSUME NEW d \in Seq(Pieces), NEW f, Flats(d, f)
  PROVE  FlatsGrow(d, f)
<1> SUFFICES \A m \in 0 .. Len(d) : \A k \in 1 .. m :
               /\ Len(f[k]) = Len(f[k - 1]) + Len(d[k]) /\ Len(f[k]) <= Len(f[m])
               /\ \A j \in 1 .. Len(d[k]) : f[m][Len(f[k - 1]) + j] = d[k][j]
  BY DEF FlatsGrow
<1> DEFINE n == Len(d)
           P(m, k) == /\ Len(f[k]) = Len(f[k - 1]) + Len(d[k]) /\ Len(f[k]) <= Len(f[m])
                      /\ \A j \in 1 .. Len(d[k]) : f[m][Len(f[k - 1]) + j] = d[k][j]
           S == {m \in 0 .. n : \A k \in 1 .. m : P(m, k)}
<1>0. n \in Nat
  OBVIOUS
<1>1. 0 \in S
  <2> HIDE DEF P
  <2> QED BY <1>0
<1>2. ASSUME NEW l \in 0 .. n - 1, l \in S PROVE l + 1 \in S
  <2> DEFINE m == l + 1
  <2>1. m \in 1 .. n /\ m - 1 = l /\ l \in 0 .. n /\ m \in 0 .. n /\ \A k \in 1 .. m : k = m \/ k \in 1 .. l
    BY <1>0
  <2> HIDE DEF m
  <2> DEFINE x == f[l]
             y == d[m]
             z == f[m]
  <2>2. x \in Seq(Symbols) /\ y \in Seq(Symbols) /\ z = x \o y
    <3>1. d[m] \in Pieces
      BY <2>1
    <3> QED BY <2>1, <3>1, PieceShape DEF Flats
  <2>3. /\ z \in Seq(Symbols) /\ Len(z) = Len(x) + Len(y) /\ Len(x) \in Nat /\ Len(y) \in Nat
        /\ \A i \in 1 .. Len(x) + Len(y) : z[i] = IF i <= Len(x) THEN x[i] ELSE y[i - Len(x)]
    <3> HIDE DEF x, y, z
    <3> QED BY ONLY <2>2, ConcatProperties, LenProperties
  <2>4. P(m, m)
    <3>1. \A j \in 1 .. Len(y) : Len(x) + j \in 1 .. Len(x) + Len(y) /\ ~ (Len(x) + j <= Len(x)) /\ (Len(x) + j) - Len(x) = j
      <4> HIDE DEF x, y, z
      <4> QED BY ONLY <2>3
    <3>2. \A j \in 1 .. Len(y) : z[Len(x) + j] = y[j]
      <4> HIDE DEF x, y, z
      <4> QED BY ONLY <2>3, <3>1
    <3>3. Len(z) <= Len(z) /\ Len(f[m - 1]) = Len(x)
      <4> HIDE DEF z
      <4> QED BY <2>1, <2>3
    <3> QED BY <2>1, <2>3, <3>2, <3>3
  <2>5. ASSUME NEW k \in 1 .. l PROVE P(m, k)
    <3>1. P(l, k)
      BY <1>2
    <3>2. k \in 0 .. n /\ k - 1 \in 0 .. n
      BY <1>0
    <3>3. f[k] \in Seq(Symbols) /\ f[k - 1] \in Seq(Symbols) /\ d[k] \in Pieces
      BY <1>0, <3>2 DEF Flats
    <3>4. Len(f[k]) \in Nat /\ Len(f[k - 1]) \in Nat /\ Len(d[k]) \in Nat
      BY <3>3, PieceShape, LenProperties
    <3>5. \A j \in 1 .. Len(d[k]) : Len(f[k - 1]) + j \in 1 .. Len(x) + Len(y) /\ Len(f[k - 1]) + j <= Len(x)
      <4>1. Len(f[k]) = Len(f[k - 1]) + Len(d[k]) /\ Len(f[k]) <= Len(x)
        BY <3>1
      <4> DEFINE p == Len(f[k - 1])
                 q == Len(d[k])
                 o == Len(f[k])
      <4>2. p \in Nat /\ q \in Nat /\ o = p + q /\ o <= Len(x)
        BY <3>4, <4>1
      <4> HIDE DEF x, y, z, p, q, o
      <4>3. \A j \in 1 .. q : p + j \in 1 .. Len(x) + Len(y) /\ p + j <= Len(x)
        BY ONLY <2>3, <4>2
      <4> QED BY <4>3 DEF p, q
    <3>6. \A j \in 1 .. Len(d[k]) : z[Len(f[k - 1]) + j] = x[Len(f[k - 1]) + j]
      <4> HIDE DEF x, y, z
      <4> QED BY ONLY <2>3, <3>5
    <3>7. Len(f[k]) <= Len(z)
      <4>1. Len(f[k]) <= Len(x)
        BY <3>1
      <4> HIDE DEF x, y, z
      <4> QED BY ONLY <2>3, <3>4, <4>1
    <3> QED BY <3>1, <3>6, <3>7
  <2>6. m \in S
    <3> HIDE DEF P
    <3> QED BY <2>1, <2>4, <2>5
  <2> QED BY <2>6 DEF m
<1>3. 0 .. n \subseteq S
  <2> HIDE DEF S
  <2> QED BY <1>0, <1>1, <1>2, UpTo
<1> QED BY <1>3

LEMMA ClauseLaid ==
  ASSUME NEW c \in Seq(Pieces)
  PROVE  \E b : /\ Laid(c, FlattenSeq(c), b) /\ FlattenSeq(c) \in Seq(Symbols)
                /\ \A n \in 1 .. Len(c) : Len(FlattenSeq(SubSeq(c, 1, n))) = b[n]
<1>0. Len(c) \in Nat /\ DOMAIN c = 1 .. Len(c) /\ \A k \in 1 .. Len(c) : c[k] \in Pieces
  OBVIOUS
<1>1. PICK f : Flats(c, f) /\ FlattenSeq(c) = f[Len(c)]
  BY FlatIs
<1> DEFINE b == [k \in 0 .. Len(c) |-> Len(f[k])]
           ts == FlattenSeq(c)
           n == Len(c)
<1>2. \A k \in 0 .. n : f[k] \in Seq(Symbols) /\ Len(f[k]) \in Nat
  BY <1>1, LenProperties DEF Flats
<1>3. ts \in Seq(Symbols) /\ ts = f[n] /\ n \in 0 .. n
  BY <1>0, <1>1, <1>2
<1>4. Laid(c, ts, b)
  <2>1. b[0] = 0 /\ b[n] = Len(ts)
    BY <1>0, <1>1, <1>3 DEF Flats
  <2>2. \A k \in 1 .. n : /\ Len(f[k]) = Len(f[k - 1]) + Len(c[k]) /\ Len(f[k]) <= Len(f[n])
                          /\ \A j \in 1 .. Len(c[k]) : f[n][Len(f[k - 1]) + j] = c[k][j]
    <3>1. n \in 0 .. Len(c) /\ Flats(c, f)
      BY <1>1, <1>3
    <3>2. \A k \in 1 .. n : /\ Len(f[k]) = Len(f[k - 1]) + Len(c[k]) /\ Len(f[k]) <= Len(f[n])
                            /\ \A j \in 1 .. Len(c[k]) : f[n][Len(f[k - 1]) + j] = c[k][j]
      <4>1. FlatsGrow(c, f)
        BY ONLY <3>1, FlatPrefix, c \in Seq(Pieces)
      <4> HIDE DEF n
      <4> QED BY ONLY <3>1, <4>1 DEF FlatsGrow
    <3> QED BY <3>2
  <2>3. \A k \in 1 .. n : k \in 0 .. n /\ k - 1 \in 0 .. n
    BY <1>0
  <2>4. \A k \in 1 .. n : b[k] = Len(f[k]) /\ b[k - 1] = Len(f[k - 1])
    BY <2>3
  <2>5. \A k \in 0 .. n : b[k] \in 0 .. Len(ts)
    <3> SUFFICES ASSUME NEW k \in 0 .. n PROVE b[k] \in 0 .. Len(ts)
      OBVIOUS
    <3>1. CASE k = 0
      BY <1>3, <2>1, <3>1, LenProperties
    <3>2. CASE k # 0
      <4>1. k \in 1 .. n
        BY <1>0, <3>2
      <4>2. Len(f[k]) <= Len(ts) /\ Len(f[k]) \in Nat /\ Len(ts) \in Nat /\ b[k] = Len(f[k])
        BY <1>2, <1>3, <2>2, <2>4, <4>1
      <4> HIDE DEF b, ts
      <4> QED BY ONLY <4>2
    <3> QED BY <3>1, <3>2
  <2>6. \A k \in 1 .. n : /\ b[k] = b[k - 1] + Len(c[k])
                          /\ \A j \in 1 .. Len(c[k]) : ts[b[k - 1] + j] = c[k][j]
    <3> HIDE DEF b, ts
    <3> QED BY <1>3, <2>2, <2>4
  <2> HIDE DEF b, ts
  <2> QED BY <2>1, <2>5, <2>6 DEF Laid
<1>5. ASSUME NEW m \in 1 .. n PROVE Len(FlattenSeq(SubSeq(c, 1, m))) = b[m]
  <2> DEFINE d == SubSeq(c, 1, m)
  <2>1. d \in Seq(Pieces) /\ Len(d) = m /\ \A i \in 1 .. m : d[i] = c[i]
    <3>1. \A i \in 1 .. m : c[i] \in Pieces
      BY <1>0
    <3> QED BY <1>0, <3>1, SubSeqProperties
  <2> HIDE DEF d
  <2>2. PICK g : Flats(d, g) /\ FlattenSeq(d) = g[Len(d)]
    BY <2>1, FlatIs
  <2>3. m \in 0 .. Len(d) /\ m <= Len(c) /\ m \in 0 .. m /\ m \in 0 .. n
    BY <1>0, <2>1
  <2>4. g[m] = f[m]
    BY <1>1, <2>1, <2>2, <2>3, FlatsAlike
  <2> QED BY <2>1, <2>2, <2>3, <2>4 DEF d
<1> QED BY <1>3, <1>4, <1>5

(* The piece the parser comes to after k of them, or the end.               *)
PieceAfter(c, k) == IF k < Len(c) THEN c[k + 1] ELSE <<End>>

LEMMA AfterRead ==
  ASSUME NEW c \in Seq(Pieces), NEW ts, Len(ts) \in Nat, NEW b, Laid(c, ts, b), NEW k \in 0 .. Len(c)
  PROVE  /\ \A j \in 1 .. Len(PieceAfter(c, k)) : TokenAt(ts, b[k] + j) = PieceAfter(c, k)[j]
         /\ k < Len(c) => /\ \A j \in 1 .. Len(PieceAfter(c, k)) : ts[b[k] + j] = PieceAfter(c, k)[j]
                          /\ PieceAfter(c, k) \in Pieces /\ b[k + 1] = b[k] + Len(PieceAfter(c, k))
         /\ b[k] \in Nat
<1>0. Len(c) \in Nat /\ k \in Nat /\ b[k] \in 0 .. Len(ts) /\ b[k] \in Nat
  BY DEF Laid
<1>1. CASE k < Len(c)
  <2> DEFINE l == k + 1
             x == c[l]
  <2>1. l \in 1 .. Len(c) /\ l \in 0 .. Len(c) /\ l - 1 = k
    BY <1>0, <1>1
  <2> HIDE DEF l
  <2>2. PieceAfter(c, k) = x
    BY <1>1 DEF PieceAfter, l
  <2>3. x \in Pieces /\ Len(x) \in Nat
    BY <2>1, PieceShape
  <2>4. b[l] = b[k] + Len(x) /\ b[l] \in 0 .. Len(ts) /\ \A j \in 1 .. Len(x) : ts[b[k] + j] = x[j]
    BY <2>1 DEF Laid
  <2> HIDE DEF x
  <2>5. \A j \in 1 .. Len(x) : b[k] + j <= Len(ts)
    BY <1>0, <2>3, <2>4
  <2>6. \A j \in 1 .. Len(x) : TokenAt(ts, b[k] + j) = x[j]
    BY <2>4, <2>5 DEF TokenAt
  <2> QED BY <1>0, <2>2, <2>3, <2>4, <2>6 DEF l
<1>2. CASE ~ (k < Len(c))
  <2>1. k = Len(c)
    BY <1>0, <1>2
  <2>2. PieceAfter(c, k) = <<End>> /\ b[k] = Len(ts)
    BY <1>2, <2>1 DEF PieceAfter, Laid
  <2>3. TokenAt(ts, b[k] + 1) = End
    BY <2>2 DEF TokenAt
  <2> QED BY <1>0, <1>2, <2>2, <2>3
<1> QED BY <1>1, <1>2

-----------------------------------------------------------------------------
(* A predicate as the parser reads it.                                      *)
NodeOf(x) ==
  IF x \in Comparisons THEN [kind |-> "cmp", op |-> "==", col |-> x[1][2], lit |-> One]
  ELSE IF x \in Ranges THEN [kind |-> "between", col |-> x[1][2], lo |-> One, hi |-> One]
  ELSE IF x \in Likes THEN [kind |-> "like", col |-> x[1][2], matches |-> {Name}, valid |-> TRUE]
  ELSE [kind |-> "cmpcol", op |-> "==", col |-> x[1][2], right |-> x[1][2]]

Singles == {<<t>> : t \in {Kw("WHERE"), Kw("AND"), Kw("OR"), LParen, RParen, <<"ident", "WERE">>}}

LEMMA PiecesAre == Pieces = Predicates \cup Singles
BY DEF Pieces, Predicates, Singles

LEMMA ComparisonIs ==
  ASSUME NEW x \in Comparisons
  PROVE  /\ Len(x) = 3 /\ x[1] = <<"ident", x[1][2]>> /\ x[2] = <<"op", "==">> /\ x[3] = <<"number", One>>
         /\ x[1][2] \in Columns /\ NodeOf(x) = [kind |-> "cmp", op |-> "==", col |-> x[1][2], lit |-> One]
<1>1. PICK c \in Columns : x = <<<<"ident", c>>, <<"op", "==">>, <<"number", One>>>>
  BY DEF Comparisons
<1>3. NodeOf(x) = [kind |-> "cmp", op |-> "==", col |-> x[1][2], lit |-> One]
  BY ONLY x \in Comparisons DEF NodeOf
<1> QED BY ONLY <1>1, <1>3 DEF Kw

LEMMA RangeIs ==
  ASSUME NEW x \in Ranges
  PROVE  /\ Len(x) = 5 /\ x[1] = <<"ident", x[1][2]>> /\ x[2] = Kw("BETWEEN") /\ x[3] = <<"number", One>>
         /\ x[4] = Kw("AND") /\ x[5] = <<"number", One>>
         /\ x[1][2] \in Columns /\ NodeOf(x) = [kind |-> "between", col |-> x[1][2], lo |-> One, hi |-> One]
<1>1. PICK c \in Columns :
        x = <<<<"ident", c>>, Kw("BETWEEN"), <<"number", One>>, Kw("AND"), <<"number", One>>>>
  BY DEF Ranges
<1>2. x \notin Comparisons
  BY <1>1 DEF Comparisons, Kw
<1>3. NodeOf(x) = [kind |-> "between", col |-> x[1][2], lo |-> One, hi |-> One]
  BY ONLY x \in Ranges, <1>2 DEF NodeOf
<1> QED BY ONLY <1>1, <1>3 DEF Kw

LEMMA LikeIs ==
  ASSUME NEW x \in Likes
  PROVE  /\ Len(x) = 3 /\ x[1] = <<"ident", x[1][2]>> /\ x[2] = Kw("LIKE") /\ x[3] = <<"string", Name>>
         /\ x[1][2] \in Texts
         /\ NodeOf(x) = [kind |-> "like", col |-> x[1][2], matches |-> {Name}, valid |-> TRUE]
<1>1. PICK c \in Texts : x = <<<<"ident", c>>, Kw("LIKE"), <<"string", Name>>>>
  BY DEF Likes
<1>2. x \notin Comparisons /\ x \notin Ranges
  BY <1>1 DEF Comparisons, Ranges, Kw
<1>3. NodeOf(x) = [kind |-> "like", col |-> x[1][2], matches |-> {Name}, valid |-> TRUE]
  BY ONLY x \in Likes, <1>2 DEF NodeOf
<1> QED BY ONLY <1>1, <1>3 DEF Kw

LEMMA TrueIs ==
  ASSUME NEW x \in Trues
  PROVE  /\ Len(x) = 3 /\ x[1] = <<"ident", x[1][2]>> /\ x[2] = <<"op", "==">> /\ x[3] = x[1]
         /\ x[1][2] \in Texts
         /\ NodeOf(x) = [kind |-> "cmpcol", op |-> "==", col |-> x[1][2], right |-> x[1][2]]
<1>1. PICK c \in Texts : x = <<<<"ident", c>>, <<"op", "==">>, <<"ident", c>>>>
  BY DEF Trues
<1>2. x \notin Comparisons /\ x \notin Ranges /\ x \notin Likes
  BY <1>1 DEF Comparisons, Ranges, Likes, Kw
<1>3. NodeOf(x) = [kind |-> "cmpcol", op |-> "==", col |-> x[1][2], right |-> x[1][2]]
  BY ONLY x \in Trues, <1>2 DEF NodeOf
<1> QED BY ONLY <1>1, <1>3 DEF Kw

(* What stands at i is the piece x.                                         *)
Stands(ts, i, x) ==
  \A j \in 1 .. Len(x) : TokenAt(ts, i + (j - 1)) = x[j] /\ ts[i + (j - 1)] = x[j]

LEMMA ComparisonRead ==
  ASSUME NEW ts, NEW i \in Nat, NEW c, TokenAt(ts, i) = <<"ident", c>>, TokenAt(ts, i + 1) = <<"op", "==">>,
         NEW v, TokenAt(ts, i + 2) = <<"number", v>>, ts[i + 1] = <<"op", "==">>, ts[i + 2] = <<"number", v>>
  PROVE  parse_predicate(ts, i) = Parsed(i + 3, <<[kind |-> "cmp", op |-> "==", col |-> c, lit |-> v]>>)
<1>1. IsA(ts, i, "ident") /\ IsA(ts, i + 1, "op") /\ ~ IsA(ts, i + 2, "ident") /\ IsLiteral(ts, i + 2)
  BY DEF IsA, IsLiteral
<1>2. TokenAt(ts, i + 1) # Kw("BETWEEN") /\ TokenAt(ts, i + 1) # Kw("LIKE")
  BY DEF Kw
<1>3. TokenAt(ts, i)[2] = c /\ ts[i + 1][2] = "==" /\ ts[i + 2][2] = v
  OBVIOUS
<1>4. parse_predicate(ts, i) = Parsed(i + 3, <<[kind |-> "cmp", op |-> ts[i + 1][2], col |-> TokenAt(ts, i)[2],
                                           lit |-> ts[i + 2][2]]>>)
  BY ONLY <1>1, <1>2, <1>3 DEF parse_predicate
<1> QED BY ONLY <1>3, <1>4

LEMMA TrueRead ==
  ASSUME NEW ts, NEW i \in Nat, NEW c, TokenAt(ts, i) = <<"ident", c>>, TokenAt(ts, i + 1) = <<"op", "==">>,
         TokenAt(ts, i + 2) = <<"ident", c>>, ts[i + 1] = <<"op", "==">>, ts[i + 2] = <<"ident", c>>
  PROVE  parse_predicate(ts, i) = Parsed(i + 3, <<[kind |-> "cmpcol", op |-> "==", col |-> c, right |-> c]>>)
<1>1. IsA(ts, i, "ident") /\ IsA(ts, i + 1, "op") /\ IsA(ts, i + 2, "ident") /\ ~ IsLiteral(ts, i + 2)
  BY DEF IsA, IsLiteral, Kw
<1>2. TokenAt(ts, i + 1) # Kw("BETWEEN") /\ TokenAt(ts, i + 1) # Kw("LIKE")
  BY DEF Kw
<1>3. TokenAt(ts, i)[2] = c /\ ts[i + 1][2] = "==" /\ ts[i + 2][2] = c
  OBVIOUS
<1>4. parse_predicate(ts, i) = Parsed(i + 3, <<[kind |-> "cmpcol", op |-> ts[i + 1][2], col |-> TokenAt(ts, i)[2],
                                           right |-> ts[i + 2][2]]>>)
  BY ONLY <1>1, <1>2, <1>3 DEF parse_predicate
<1> QED BY ONLY <1>3, <1>4

LEMMA LikeRead ==
  ASSUME NEW ts, NEW i \in Nat, NEW c, TokenAt(ts, i) = <<"ident", c>>, TokenAt(ts, i + 1) = Kw("LIKE"),
         NEW v, TokenAt(ts, i + 2) = <<"string", v>>, ts[i + 2] = <<"string", v>>
  PROVE  parse_predicate(ts, i)
           = Parsed(i + 3, <<[kind |-> "like", col |-> c, matches |-> {v}, valid |-> TRUE]>>)
<1>1. IsA(ts, i, "ident") /\ IsA(ts, i + 2, "string") /\ ~ IsA(ts, i + 1, "op")
  BY DEF IsA, Kw
<1>2. TokenAt(ts, i + 1) # Kw("BETWEEN")
  BY DEF Kw
<1>3. TokenAt(ts, i)[2] = c /\ ts[i + 2][2] = v
  OBVIOUS
<1>4. parse_predicate(ts, i) = Parsed(i + 3, <<[kind |-> "like", col |-> TokenAt(ts, i)[2], matches |-> {ts[i + 2][2]},
                                           valid |-> TRUE]>>)
  BY ONLY <1>1, <1>2, TokenAt(ts, i + 1) = Kw("LIKE") DEF parse_predicate
<1> QED BY ONLY <1>3, <1>4

LEMMA RangeRead ==
  ASSUME NEW ts, NEW i \in Nat, NEW c, TokenAt(ts, i) = <<"ident", c>>, TokenAt(ts, i + 1) = Kw("BETWEEN"),
         NEW v, TokenAt(ts, i + 2) = <<"number", v>>, ts[i + 2] = <<"number", v>>,
         TokenAt(ts, i + 3) = Kw("AND"), TokenAt(ts, i + 4) = <<"number", v>>, ts[i + 4] = <<"number", v>>
  PROVE  parse_predicate(ts, i)
           = Parsed(i + 5, <<[kind |-> "between", col |-> c, lo |-> v, hi |-> v]>>)
<1>1. IsA(ts, i, "ident") /\ IsLiteral(ts, i + 2) /\ IsLiteral(ts, i + 4) /\ ~ IsA(ts, i + 1, "op")
  BY DEF IsA, IsLiteral, Kw
<1>2. TokenAt(ts, i + 1) # Kw("LIKE")
  BY DEF Kw
<1>3. TokenAt(ts, i)[2] = c /\ ts[i + 2][2] = v /\ ts[i + 4][2] = v
  OBVIOUS
<1>4. parse_predicate(ts, i) = Parsed(i + 5, <<[kind |-> "between", col |-> TokenAt(ts, i)[2], lo |-> ts[i + 2][2],
                                           hi |-> ts[i + 4][2]]>>)
  BY ONLY <1>1, <1>2, TokenAt(ts, i + 1) = Kw("BETWEEN"), TokenAt(ts, i + 3) = Kw("AND") DEF parse_predicate
<1> QED BY ONLY <1>3, <1>4

LEMMA PredicateStands ==
  ASSUME NEW x \in Predicates, NEW ts, NEW i \in Nat, Stands(ts, i, x)
  PROVE  parse_predicate(ts, i) = Parsed(i + Len(x), <<NodeOf(x)>>)
<1> DEFINE c == x[1][2]
<1>0. i + 0 = i
  OBVIOUS
<1>1. CASE x \in Comparisons
  <2>1. /\ TokenAt(ts, i) = x[1] /\ TokenAt(ts, i + 1) = x[2] /\ TokenAt(ts, i + 2) = x[3]
        /\ ts[i + 1] = x[2] /\ ts[i + 2] = x[3]
    BY <1>0, <1>1, ComparisonIs DEF Stands
  <2>2. x[1] = <<"ident", c>> /\ x[2] = <<"op", "==">> /\ x[3] = <<"number", One>> /\ Len(x) = 3
    BY <1>1, ComparisonIs
  <2>3. NodeOf(x) = [kind |-> "cmp", op |-> "==", col |-> c, lit |-> One]
    BY <1>1, ComparisonIs
  <2> HIDE DEF c
  <2>4. parse_predicate(ts, i) = Parsed(i + 3, <<[kind |-> "cmp", op |-> "==", col |-> c, lit |-> One]>>)
    BY <2>1, <2>2, ComparisonRead
  <2> QED BY <2>2, <2>3, <2>4
<1>2. CASE x \in Ranges
  <2>1. /\ TokenAt(ts, i) = x[1] /\ TokenAt(ts, i + 1) = x[2] /\ TokenAt(ts, i + 2) = x[3]
        /\ TokenAt(ts, i + 3) = x[4] /\ TokenAt(ts, i + 4) = x[5]
        /\ ts[i + 2] = x[3] /\ ts[i + 4] = x[5]
    BY <1>0, <1>2, RangeIs DEF Stands
  <2>2. /\ x[1] = <<"ident", c>> /\ x[2] = Kw("BETWEEN") /\ x[3] = <<"number", One>> /\ Len(x) = 5
        /\ x[4] = Kw("AND") /\ x[5] = <<"number", One>>
    BY <1>2, RangeIs
  <2>3. NodeOf(x) = [kind |-> "between", col |-> c, lo |-> One, hi |-> One]
    BY <1>2, RangeIs
  <2> HIDE DEF c
  <2>4. parse_predicate(ts, i) = Parsed(i + 5, <<[kind |-> "between", col |-> c, lo |-> One, hi |-> One]>>)
    BY <2>1, <2>2, RangeRead
  <2> QED BY <2>2, <2>3, <2>4
<1>3. CASE x \in Likes
  <2>1. /\ TokenAt(ts, i) = x[1] /\ TokenAt(ts, i + 1) = x[2] /\ TokenAt(ts, i + 2) = x[3]
        /\ ts[i + 1] = x[2] /\ ts[i + 2] = x[3]
    BY <1>0, <1>3, LikeIs DEF Stands
  <2>2. x[1] = <<"ident", c>> /\ x[2] = Kw("LIKE") /\ x[3] = <<"string", Name>> /\ Len(x) = 3
    BY <1>3, LikeIs
  <2>3. NodeOf(x) = [kind |-> "like", col |-> c, matches |-> {Name}, valid |-> TRUE]
    BY <1>3, LikeIs
  <2> HIDE DEF c
  <2>4. parse_predicate(ts, i)
          = Parsed(i + 3, <<[kind |-> "like", col |-> c, matches |-> {Name}, valid |-> TRUE]>>)
    BY <2>1, <2>2, LikeRead
  <2> QED BY <2>2, <2>3, <2>4
<1>4. CASE x \in Trues
  <2>1. /\ TokenAt(ts, i) = x[1] /\ TokenAt(ts, i + 1) = x[2] /\ TokenAt(ts, i + 2) = x[3]
        /\ ts[i + 1] = x[2] /\ ts[i + 2] = x[3]
    BY <1>0, <1>4, TrueIs DEF Stands
  <2>2. x[1] = <<"ident", c>> /\ x[2] = <<"op", "==">> /\ x[3] = <<"ident", c>> /\ Len(x) = 3
    BY <1>4, TrueIs
  <2>3. NodeOf(x) = [kind |-> "cmpcol", op |-> "==", col |-> c, right |-> c]
    BY <1>4, TrueIs
  <2> HIDE DEF c
  <2>4. parse_predicate(ts, i) = Parsed(i + 3, <<[kind |-> "cmpcol", op |-> "==", col |-> c, right |-> c]>>)
    BY <2>1, <2>2, TrueRead
  <2> QED BY <2>2, <2>3, <2>4
<1> QED BY <1>1, <1>2, <1>3, <1>4 DEF Predicates

(* What begins a piece, or the end.                                         *)
FirstTokenOf(x) ==
  /\ Len(x) \in Nat /\ Len(x) >= 1
  /\ x[1] # Kw("BETWEEN") /\ x[1] # Kw("LIKE") /\ x[1][1] # "op"
  /\ (x[1] = LParen <=> x = <<LParen>>) /\ (x[1] = RParen <=> x = <<RParen>>)
  /\ \A w \in {"WHERE", "AND", "OR"} : x[1] = Kw(w) <=> x = <<Kw(w)>>
  /\ x \in Predicates => x[1][1] = "ident"
  /\ x \notin Predicates /\ x[1][1] = "ident" => x = <<<<"ident", "WERE">>>>

LEMMA FirstToken ==
  ASSUME NEW x \in Pieces \cup {<<End>>}
  PROVE  FirstTokenOf(x)
<1>1. CASE x \in Predicates
  <2> DEFINE t == x[1]
  <2>1. Len(x) > 1 /\ Len(x) \in Nat /\ t[1] = "ident" /\ t = <<"ident", t[2]>>
    BY <1>1, ComparisonIs, RangeIs, LikeIs, TrueIs DEF Predicates
  <2>2. \A u : x # <<u>>
    <3>1. \A u : Len(<<u>>) = 1
      OBVIOUS
    <3> QED BY <2>1, <3>1
  <2>3. t # LParen /\ t # RParen /\ t[1] # "op" /\ \A w : t # Kw(w)
    <3>1. LParen[1] = "(" /\ RParen[1] = ")" /\ \A w : Kw(w)[1] = "kw"
      BY DEF LParen, RParen, Kw
    <3> HIDE DEF t
    <3> QED BY <2>1, <3>1
  <2> QED BY <1>1, <2>1, <2>2, <2>3 DEF FirstTokenOf
<1>2. CASE x \in Singles \cup {<<End>>}
  <2>1. PICK t \in {Kw("WHERE"), Kw("AND"), Kw("OR"), LParen, RParen, <<"ident", "WERE">>, End} : x = <<t>>
    BY <1>2 DEF Singles
  <2>2. Len(x) = 1 /\ x[1] = t /\ x \notin Predicates
    <3>1. Len(x) = 1 /\ x[1] = t
      BY <2>1
    <3> QED BY <3>1, ComparisonIs, RangeIs, LikeIs, TrueIs DEF Predicates
  <2>3. \A u : x = <<u>> <=> t = u
    BY <2>1, <2>2
  <2>4. t[1] # "op" /\ (t[1] = "ident" => t = <<"ident", "WERE">>) /\ (t[1] = "kw" => t[2] \in {"WHERE", "AND", "OR"})
    <3>1. CASE t \in {Kw("WHERE"), Kw("AND"), Kw("OR")}
      BY <3>1 DEF Kw
    <3>2. CASE t = LParen
      BY ONLY <3>2 DEF LParen
    <3>4. CASE t = RParen
      BY ONLY <3>4 DEF RParen
    <3>5. CASE t = End
      BY ONLY <3>5 DEF End
    <3>3. CASE t = <<"ident", "WERE">>
      BY <3>3
    <3> QED BY <2>1, <3>1, <3>2, <3>3, <3>4, <3>5
  <2>5. t # Kw("BETWEEN") /\ t # Kw("LIKE")
    BY <2>4 DEF Kw
  <2> QED BY <2>2, <2>3, <2>4, <2>5 DEF FirstTokenOf
<1> QED BY <1>1, <1>2, PiecesAre

-----------------------------------------------------------------------------
(* How many parentheses are open behind a piece.                            *)
Opens(x) == IF x = <<LParen>> THEN 1 ELSE IF x = <<RParen>> THEN -1 ELSE 0

Heights(c, h) ==
  /\ h[0] = 0 /\ \A i \in 0 .. Len(c) : h[i] \in Int
  /\ \A i \in 1 .. Len(c) : h[i] = h[i - 1] + Opens(c[i])

LEMMA HeightsExist ==
  ASSUME NEW c \in Seq(Pieces)
  PROVE  \E h : Heights(c, h)
<1> DEFINE n == Len(c)
           D == 1 .. n
           move == [i \in D |-> [x \in Int |-> x + Opens(c[i])]]
<1>1. n \in Nat /\ 0 \in Int
  OBVIOUS
<1>2. \A i \in D : \A x \in Int : move[i][x] = x + Opens(c[i]) /\ move[i][x] \in Int
  <2>1. \A x : Opens(x) \in Int
    BY DEF Opens
  <2> HIDE DEF D
  <2> QED BY <2>1
<1> HIDE DEF move
<1>3. PICK h : Folds(h, n, Int, 0, move)
  <2> HIDE DEF n
  <2> QED BY <1>1, <1>2, FoldExists DEF D
<1>4. ASSUME NEW i \in D PROVE h[i] = h[i - 1] + Opens(c[i])
  <2>1. i - 1 \in 0 .. n
    BY <1>1
  <2>2. h[i - 1] \in Int /\ h[i] = move[i][h[i - 1]]
    BY <1>3, <2>1 DEF Folds
  <2> QED BY <1>2, <2>2
<1>5. h[0] = 0 /\ \A i \in 0 .. n : h[i] \in Int
  BY <1>3 DEF Folds
<1> QED BY <1>4, <1>5 DEF Heights

(* The pieces behind the k-th up to the m-th.                               *)
Seg(c, k, m) == SubSeq(c, k + 1, m)

LEMMA SegIs ==
  ASSUME NEW c \in Seq(Pieces), NEW m \in 0 .. Len(c), NEW k \in 0 .. m
  PROVE  /\ Seg(c, k, m) \in Seq(Pieces) /\ Len(Seg(c, k, m)) = m - k
         /\ \A i \in 1 .. m - k : Seg(c, k, m)[i] = c[k + i]
<1>1. Len(c) \in Nat /\ \A i \in 1 .. Len(c) : c[i] \in Pieces
  OBVIOUS
<1> DEFINE l == k + 1
<1>2. l \in Int /\ \A i \in l .. m : c[i] \in Pieces
  BY <1>1
<1>3. /\ SubSeq(c, l, m) \in Seq(Pieces)
      /\ Len(SubSeq(c, l, m)) = IF l <= m THEN m - l + 1 ELSE 0
      /\ \A i \in 1 .. m - l + 1 : SubSeq(c, l, m)[i] = c[l + i - 1]
  <2> HIDE DEF l
  <2> QED BY <1>1, <1>2, SubSeqProperties
<1>4. m - l + 1 = m - k /\ (~ (l <= m) => m - k = 0)
  OBVIOUS
<1>5. \A i \in 1 .. m - k : l + i - 1 = k + i
  OBVIOUS
<1> HIDE DEF l
<1>6. Len(SubSeq(c, l, m)) = m - k
  BY <1>3, <1>4
<1>7. \A i \in 1 .. m - k : SubSeq(c, l, m)[i] = c[k + i]
  BY <1>3, <1>4, <1>5
<1> QED BY <1>3, <1>6, <1>7 DEF Seg, l

LEMMA SegSeg ==
  ASSUME NEW c \in Seq(Pieces), NEW m \in 0 .. Len(c), NEW k \in 0 .. m,
         NEW q \in 0 .. m - k, NEW p \in 0 .. q
  PROVE  Seg(Seg(c, k, m), p, q) = Seg(c, k + p, k + q)
<1> DEFINE u == Seg(c, k, m)
<1>1. u \in Seq(Pieces) /\ Len(u) = m - k /\ \A i \in 1 .. m - k : u[i] = c[k + i]
  BY SegIs
<1> DEFINE v == Seg(u, p, q)
           a == k + p
           b == k + q
           w == Seg(c, a, b)
<1>2. a \in 0 .. b /\ b \in 0 .. Len(c) /\ b - a = q - p /\ q \in 0 .. Len(u)
  BY <1>1
<1>3. v \in Seq(Pieces) /\ Len(v) = q - p /\ \A i \in 1 .. q - p : v[i] = u[p + i]
  <2> HIDE DEF u
  <2> QED BY <1>1, <1>2, SegIs
<1>4. w \in Seq(Pieces) /\ Len(w) = q - p /\ \A i \in 1 .. q - p : w[i] = c[a + i]
  <2> HIDE DEF a, b
  <2> QED BY <1>2, SegIs
<1>5. \A i \in 1 .. q - p : p + i \in 1 .. m - k /\ k + (p + i) = a + i
  OBVIOUS
<1>6. \A i \in 1 .. q - p : v[i] = w[i]
  <2> HIDE DEF u, v, w, a
  <2> QED BY <1>1, <1>3, <1>4, <1>5 DEF u
<1>7. v = w
  <2> HIDE DEF v, w
  <2> QED BY <1>3, <1>4, <1>6
<1> QED BY <1>7

LEMMA TokensDiffer ==
  /\ <<LParen>> # <<RParen>>
  /\ \A kw : <<Kw(kw)>> # <<LParen>> /\ <<Kw(kw)>> # <<RParen>> /\ Opens(<<Kw(kw)>>) = 0
  /\ \A kw, kx : <<Kw(kw)>> = <<Kw(kx)>> => kw = kx
<1>1. LParen[1] # RParen[1] /\ \A kw : Kw(kw)[1] # LParen[1] /\ Kw(kw)[1] # RParen[1] /\ Kw(kw)[2] = kw
  BY DEF LParen, RParen, Kw
<1>2. \A x : <<x>>[1] = x
  OBVIOUS
<1>3. \A kw : <<Kw(kw)>> # <<LParen>> /\ <<Kw(kw)>> # <<RParen>>
  BY ONLY <1>1, <1>2
<1>4. <<LParen>> # <<RParen>> /\ \A kw, kx : <<Kw(kw)>> = <<Kw(kx)>> => kw = kx
  BY ONLY <1>1, <1>2
<1> QED BY <1>3, <1>4 DEF Opens

Climbs(u, n, g) ==
  (\A i \in 0 .. n : g[i] \in Int) /\ \A i \in 1 .. n : g[i] = g[i - 1] + Opens(u[i])

Balance(u, n, g) ==
  \A i \in 0 .. n : Count(u, <<LParen>>, i) - Count(u, <<RParen>>, i) = g[i] - g[0]

LEMMA CountsAre ==
  ASSUME NEW u, NEW n \in Nat, NEW g, Climbs(u, n, g)
  PROVE  Balance(u, n, g)
<1> SUFFICES ASSUME \A i \in 0 .. n : g[i] \in Int,
                    \A i \in 1 .. n : g[i] = g[i - 1] + Opens(u[i])
             PROVE  \A i \in 0 .. n : Count(u, <<LParen>>, i) - Count(u, <<RParen>>, i) = g[i] - g[0]
  BY DEF Climbs, Balance
<1> DEFINE P(i) == Count(u, <<LParen>>, i)
           Q(i) == Count(u, <<RParen>>, i)
           S == {i \in 0 .. n : P(i) - Q(i) = g[i] - g[0]}
<1>1. /\ P(0) = 0 /\ Q(0) = 0
      /\ \A i \in Nat : /\ P(i) \in Nat /\ Q(i) \in Nat
                        /\ P(i + 1) = P(i) + (IF u[i + 1] = <<LParen>> THEN 1 ELSE 0)
                        /\ Q(i + 1) = Q(i) + (IF u[i + 1] = <<RParen>> THEN 1 ELSE 0)
  BY ONLY CountStep
<1> HIDE DEF P, Q
<1>2. 0 \in S
  BY <1>1
<1>3. ASSUME NEW i \in 0 .. n - 1, i \in S PROVE i + 1 \in S
  <2> DEFINE j == i + 1
             x == u[j]
  <2>1. j \in 1 .. n /\ j \in 0 .. n /\ i \in 0 .. n /\ i \in Nat /\ j - 1 = i
    OBVIOUS
  <2>2. /\ P(i) \in Nat /\ Q(i) \in Nat
        /\ P(j) = P(i) + (IF x = <<LParen>> THEN 1 ELSE 0) /\ Q(j) = Q(i) + (IF x = <<RParen>> THEN 1 ELSE 0)
    BY <1>1, <2>1
  <2>3. g[i] \in Int /\ g[0] \in Int /\ g[j] = g[i] + Opens(x)
    <3>1. 0 \in 0 .. n
      OBVIOUS
    <3> HIDE DEF j
    <3> QED BY <2>1, <3>1
  <2>4. P(i) - Q(i) = g[i] - g[0]
    BY <1>3
  <2>5. P(j) - Q(j) = g[j] - g[0]
    <3> HIDE DEF x, j
    <3>1. CASE x = <<LParen>>
      BY ONLY <3>1, <2>2, <2>3, <2>4, TokensDiffer DEF Opens
    <3>2. CASE x = <<RParen>>
      BY ONLY <3>2, <2>2, <2>3, <2>4, TokensDiffer DEF Opens
    <3>3. CASE x # <<RParen>> /\ x # <<LParen>>
      BY ONLY <3>3, <2>2, <2>3, <2>4 DEF Opens
    <3> QED BY <3>1, <3>2, <3>3
  <2> QED BY <2>1, <2>5
<1>4. 0 .. n \subseteq S
  <2> HIDE DEF S
  <2> QED BY <1>2, <1>3, UpTo
<1>5. \A i \in 0 .. n : P(i) - Q(i) = g[i] - g[0]
  BY <1>4
<1> QED BY <1>5 DEF P, Q

LEMMA DepthIs ==
  ASSUME NEW u, NEW i \in Nat \ {0}, NEW kw, u[i] = <<Kw(kw)>>
  PROVE  Depth(u, i) = Count(u, <<LParen>>, i) - Count(u, <<RParen>>, i)
<1> DEFINE j == i - 1
<1>1. j \in Nat /\ j + 1 = i
  OBVIOUS
<1> HIDE DEF j
<1>2. /\ Count(u, <<RParen>>, j) \in Nat
      /\ Count(u, <<RParen>>, j + 1) = Count(u, <<RParen>>, j) + (IF u[j + 1] = <<RParen>> THEN 1 ELSE 0)
  BY ONLY <1>1, CountStep
<1>3. u[j + 1] # <<RParen>>
  BY <1>1, TokensDiffer
<1>4. Count(u, <<RParen>>, i) = Count(u, <<RParen>>, j)
  BY ONLY <1>1, <1>2, <1>3
<1> QED BY <1>4 DEF Depth, Count, j

(* The keywords of the outermost level of the pieces behind the k-th.       *)
SepAt(c, h, k, m, kw) == {i \in k + 1 .. m : c[i] = <<Kw(kw)>> /\ h[i] = h[k]}

LEMMA SeparatorsAre ==
  ASSUME NEW c \in Seq(Pieces), NEW h, Heights(c, h), NEW m \in 0 .. Len(c), NEW k \in 0 .. m, NEW kw
  PROVE  Separators(Seg(c, k, m), kw) = {i \in 1 .. m - k : k + i \in SepAt(c, h, k, m, kw)}
<1> SUFFICES ASSUME NEW u, u = Seg(c, k, m), NEW n, n = m - k
             PROVE  Separators(u, kw) = {i \in 1 .. n : k + i \in SepAt(c, h, k, m, kw)}
  OBVIOUS
<1>0. u \in Seq(Pieces) /\ Len(u) = n /\ n \in Nat /\ \A i \in 1 .. n : u[i] = c[k + i]
  <2>1. n \in Nat
    OBVIOUS
  <2> QED BY <2>1, SegIs
<1>1. DOMAIN u = 1 .. n
  BY <1>0
<1>2. /\ \A i \in 0 .. n : k + i \in 0 .. Len(c) 
      /\ \A i \in 1 .. n : k + i \in 1 .. Len(c) /\ (k + i) - 1 = k + (i - 1) /\ i \in 0 .. n /\ i - 1 \in 0 .. n
      /\ k + 0 = k /\ 0 \in 0 .. n
  BY <1>0
<1> DEFINE g == [i \in 0 .. n |-> h[k + i]]
<1>3. \A i \in 0 .. n : g[i] = h[k + i] /\ g[i] \in Int
  BY <1>2 DEF Heights
<1>4. \A i \in 1 .. n : h[k + i] = h[(k + i) - 1] + Opens(c[k + i])
  BY <1>2 DEF Heights
<1> HIDE DEF g
<1>5. \A i \in 1 .. n : g[i] = g[i - 1] + Opens(u[i])
  BY <1>0, <1>2, <1>3, <1>4
<1>6. \A i \in 0 .. n : Count(u, <<LParen>>, i) - Count(u, <<RParen>>, i) = g[i] - g[0]
  <2>1. Climbs(u, n, g)
    BY ONLY <1>3, <1>5 DEF Climbs
  <2>2. n \in Nat
    BY <1>0
  <2>3. Balance(u, n, g)
    BY ONLY <2>1, <2>2, CountsAre
  <2> QED BY ONLY <2>3 DEF Balance
<1>7. \A i \in 1 .. n : u[i] = <<Kw(kw)>> => Depth(u, i) = h[k + i] - h[k] /\ h[k + i] \in Int /\ h[k] \in Int
  <2>1. \A i \in 1 .. n : i \in Nat \ {0}
    OBVIOUS
  <2>2. \A i \in 1 .. n : u[i] = <<Kw(kw)>> => Depth(u, i) = Count(u, <<LParen>>, i) - Count(u, <<RParen>>, i)
    BY <2>1, DepthIs
  <2> QED BY <1>2, <1>3, <1>6, <2>2
<1>8. \A i \in 1 .. n : u[i] = <<Kw(kw)>> => (Depth(u, i) = 0 <=> h[k + i] = h[k])
  BY <1>7
<1>9. \A i \in 1 .. n : k + i \in k + 1 .. m
  BY <1>0
<1> QED BY <1>0, <1>1, <1>8, <1>9 DEF Separators, SepAt

-----------------------------------------------------------------------------
(* What pieces mean, by what shorter sequences mean.                        *)
Replies == {"yes", "no", "none"}

Replying == [Seq(Pieces) -> Replies]

LEMMA SepBounds ==
  ASSUME NEW u \in Seq(Pieces), NEW kw
  PROVE  Separators(u, kw) \subseteq 1 .. Len(u) /\ Len(u) \in Nat
BY DEF Separators

LEMMA SaysSplit ==
  ASSUME NEW u \in Seq(Pieces), NEW kw \in {"AND", "OR"}, NEW i \in Separators(u, kw),
         \A j \in Separators(u, kw) : j <= i, kw = "AND" => Separators(u, "OR") = {}, NEW x, NEW row
  PROVE  Says(u, x, row) = Combined(kw, x[Seg(u, 0, i - 1)], x[Seg(u, i, Len(u))])
<1>1. Max(Separators(u, kw)) = i
  BY SepBounds, MaxOf
<1>2. Seg(u, 0, i - 1) = SubSeq(u, 1, i - 1) /\ Seg(u, i, Len(u)) = SubSeq(u, i + 1, Len(u))
  BY DEF Seg
<1>3. CASE kw = "OR"
  <2>1. Separators(u, "OR") # {} /\ Max(Separators(u, "OR")) = i
    BY <1>1, <1>3
  <2>2. Says(u, x, row) = Combined("OR", x[SubSeq(u, 1, i - 1)], x[SubSeq(u, i + 1, Len(u))])
    BY ONLY <2>1 DEF Says
  <2> QED BY <1>2, <1>3, <2>2
<1>4. CASE kw = "AND"
  <2>1. Separators(u, "OR") = {} /\ Separators(u, "AND") # {} /\ Max(Separators(u, "AND")) = i
    BY <1>1, <1>4
  <2>2. Says(u, x, row) = Combined("AND", x[SubSeq(u, 1, i - 1)], x[SubSeq(u, i + 1, Len(u))])
    BY ONLY <2>1 DEF Says
  <2> QED BY <1>2, <1>4, <2>2
<1> QED BY <1>3, <1>4

Enclosed(u) == Len(u) > 2 /\ u[1] = <<LParen>> /\ u[Len(u)] = <<RParen>>

LEMMA SaysWhole ==
  ASSUME NEW u \in Seq(Pieces), Separators(u, "OR") = {}, Separators(u, "AND") = {}, NEW x, NEW row
  PROVE  /\ Enclosed(u) => Says(u, x, row) = x[Seg(u, 1, Len(u) - 1)]
         /\ Len(u) = 1 => Says(u, x, row) = PieceMeans(u[1], row)
         /\ ~ Enclosed(u) /\ Len(u) # 1 => Says(u, x, row) = "none"
<1>0. Len(u) \in Nat
  OBVIOUS
<1>1. ASSUME Enclosed(u) PROVE Says(u, x, row) = x[SubSeq(u, 2, Len(u) - 1)]
  <2>1. Len(u) # 1
    BY <1>0, <1>1 DEF Enclosed
  <2> QED BY ONLY <1>1, <2>1, Separators(u, "OR") = {}, Separators(u, "AND") = {} DEF Says, Enclosed
<1>2. ASSUME Len(u) = 1 PROVE Says(u, x, row) = PieceMeans(u[1], row)
  <2>1. ~ (Len(u) > 2)
    BY <1>2
  <2> QED BY ONLY <1>2, <2>1, Separators(u, "OR") = {}, Separators(u, "AND") = {} DEF Says
<1>3. ASSUME ~ Enclosed(u), Len(u) # 1 PROVE Says(u, x, row) = "none"
  BY ONLY <1>3, Separators(u, "OR") = {}, Separators(u, "AND") = {} DEF Says, Enclosed
<1>4. Seg(u, 1, Len(u) - 1) = SubSeq(u, 2, Len(u) - 1)
  BY DEF Seg
<1> QED BY <1>1, <1>2, <1>3, <1>4

LEMMA SaysNothing ==
  ASSUME NEW u \in Seq(Pieces), Len(u) = 0, NEW x, NEW row
  PROVE  Says(u, x, row) = "none"
<1>1. ASSUME NEW kw PROVE Separators(u, kw) = {}
  <2>1. Separators(u, kw) \subseteq 1 .. 0
    BY SepBounds
  <2>2. 1 .. 0 = {}
    OBVIOUS
  <2> QED BY ONLY <2>1, <2>2
<1>2. ~ Enclosed(u) /\ Len(u) # 1
  BY DEF Enclosed
<1> QED BY <1>1, <1>2, SaysWhole

(* How a sequence is asked about.                                           *)
LEMMA SaysCases ==
  ASSUME NEW u \in Seq(Pieces)
  PROVE  \/ \E kw \in {"AND", "OR"} : \E i \in Separators(u, kw) :
              (\A j \in Separators(u, kw) : j <= i) /\ (kw = "AND" => Separators(u, "OR") = {})
         \/ Separators(u, "OR") = {} /\ Separators(u, "AND") = {}
<1>1. ASSUME NEW kw, Separators(u, kw) # {}
      PROVE  \E i \in Separators(u, kw) : \A j \in Separators(u, kw) : j <= i
  <2>1. Separators(u, kw) \in SUBSET (0 .. Len(u)) /\ Len(u) \in Nat
    BY SepBounds
  <2> QED BY <1>1, <2>1, MaxIsGreatest
<1>2. CASE Separators(u, "OR") # {}
  BY <1>1, <1>2
<1>3. CASE Separators(u, "OR") = {} /\ Separators(u, "AND") # {}
  BY <1>1, <1>3
<1> QED BY <1>2, <1>3

LEMMA PieceAnswers ==
  ASSUME NEW p, NEW row
  PROVE  PieceMeans(p, row) \in Replies
<1>1. \A b : Truth(b) \in Replies
  BY DEF Truth, Replies
<1>2. CASE p \in Comparisons \cup Ranges \cup Likes /\ p \in Trues
  <2>1. PieceMeans(p, row) = Truth(row[p[1][2]] \in {One, Name}) \/ PieceMeans(p, row) = "yes"
    BY ONLY <1>2 DEF PieceMeans
  <2> QED BY <1>1, <2>1 DEF Replies
<1>3. CASE p \in Comparisons \cup Ranges \cup Likes /\ p \notin Trues
  <2>1. PieceMeans(p, row) = Truth(row[p[1][2]] \in {One, Name})
    BY ONLY <1>3 DEF PieceMeans
  <2> QED BY <1>1, <2>1 DEF Replies
<1>4. CASE p \notin Comparisons \cup Ranges \cup Likes /\ p \in Trues
  <2>1. PieceMeans(p, row) = "yes"
    BY ONLY <1>4 DEF PieceMeans
  <2> QED BY <2>1 DEF Replies
<1>5. CASE p \notin Comparisons \cup Ranges \cup Likes /\ p \notin Trues
  <2>1. PieceMeans(p, row) = "none"
    BY ONLY <1>5 DEF PieceMeans
  <2> QED BY <2>1 DEF Replies
<1> QED BY <1>2, <1>3, <1>4, <1>5

LEMMA CombinedAnswers ==
  ASSUME NEW kw, NEW l, NEW r
  PROVE  Combined(kw, l, r) \in Replies
BY DEF Combined, Truth, Replies

(* Only what shorter sequences mean is asked.                               *)
LEMMA SaysShorter ==
  ASSUME NEW u \in Seq(Pieces), NEW x, NEW y, NEW row,
         \A w \in Seq(Pieces) : Len(w) < Len(u) => x[w] = y[w]
  PROVE  /\ Says(u, x, row) = Says(u, y, row)
         /\ x \in Replying => Says(u, x, row) \in Replies
<1>0. Len(u) \in Nat
  OBVIOUS
<1>1. ASSUME NEW kw \in {"AND", "OR"}, NEW i \in Separators(u, kw),
             \A j \in Separators(u, kw) : j <= i, kw = "AND" => Separators(u, "OR") = {}
      PROVE  Says(u, x, row) = Says(u, y, row) /\ Says(u, x, row) \in Replies
  <2>1. i \in 1 .. Len(u)
    BY SepBounds
  <2> DEFINE l == Seg(u, 0, i - 1)
             r == Seg(u, i, Len(u))
  <2>2. l \in Seq(Pieces) /\ r \in Seq(Pieces) /\ Len(l) < Len(u) /\ Len(r) < Len(u)
    <3> DEFINE j == i - 1
               n == Len(u)
    <3>1. j \in 0 .. n /\ 0 \in 0 .. j /\ n \in 0 .. n /\ i \in 0 .. n /\ j - 0 < n /\ n - i < n
      BY <1>0, <2>1
    <3>2. Seg(u, 0, j) \in Seq(Pieces) /\ Len(Seg(u, 0, j)) = j - 0
      <4> HIDE DEF j
      <4> QED BY <3>1, SegIs
    <3>3. Seg(u, i, n) \in Seq(Pieces) /\ Len(Seg(u, i, n)) = n - i
      BY <3>1, SegIs
    <3> QED BY <3>1, <3>2, <3>3
  <2>3. x[l] = y[l] /\ x[r] = y[r]
    <3> HIDE DEF l, r
    <3> QED BY <2>2
  <2>4. Says(u, x, row) = Combined(kw, x[l], x[r])
    BY <1>1, SaysSplit
  <2>5. Says(u, y, row) = Combined(kw, y[l], y[r])
    BY <1>1, SaysSplit
  <2> HIDE DEF l, r
  <2> QED BY <2>3, <2>4, <2>5, CombinedAnswers
<1>2. ASSUME Separators(u, "OR") = {}, Separators(u, "AND") = {}
      PROVE  Says(u, x, row) = Says(u, y, row) /\ (x \in Replying => Says(u, x, row) \in Replies)
  <2>1. CASE Enclosed(u)
    <3> DEFINE j == Len(u) - 1
               w == Seg(u, 1, j)
    <3>1. j \in 0 .. Len(u) /\ 1 \in 0 .. j /\ j - 1 < Len(u)
      BY <1>0, <2>1 DEF Enclosed
    <3>2. w \in Seq(Pieces) /\ Len(w) = j - 1
      <4> HIDE DEF j
      <4> QED BY <3>1, SegIs
    <3>3. Says(u, x, row) = x[w] /\ Says(u, y, row) = y[w]
      BY <1>2, <2>1, SaysWhole
    <3>4. Len(w) < Len(u)
      BY <3>1, <3>2
    <3> HIDE DEF w
    <3> QED BY <3>2, <3>3, <3>4 DEF Replying
  <2>2. CASE Len(u) = 1
    <3>1. Says(u, x, row) = PieceMeans(u[1], row) /\ Says(u, y, row) = PieceMeans(u[1], row)
      BY <1>2, <2>2, SaysWhole
    <3> QED BY <3>1, PieceAnswers
  <2>3. CASE ~ Enclosed(u) /\ Len(u) # 1
    <3>1. Says(u, x, row) = "none" /\ Says(u, y, row) = "none"
      BY <1>2, <2>3, SaysWhole
    <3> QED BY <3>1 DEF Replies
  <2> QED BY <2>1, <2>2, <2>3
<1> QED BY <1>1, <1>2, SaysCases

-----------------------------------------------------------------------------
(* What sequences of up to n pieces mean.                                   *)
Chain(f, n, row) ==
  /\ f = [i \in 0 .. n |-> [v \in Seq(Pieces) |-> IF i = 0 THEN "none" ELSE Says(v, f[i - 1], row)]]
  /\ \A v \in Seq(Pieces) : f[0][v] = "none" /\ \A i \in 1 .. n : f[i][v] = Says(v, f[i - 1], row)
  /\ \A i \in 0 .. n : f[i] \in Replying

LEMMA ChainExists ==
  ASSUME NEW n \in Nat, NEW row
  PROVE  \E f : Chain(f, n, row)
<1> DEFINE D == 1 .. n
           P == Seq(Pieces)
           a == [v \in P |-> "none"]
           asks == [x \in Replying |-> [v \in P |-> Says(v, x, row)]]
           move == [i \in D |-> asks]
<1>1. a \in Replying
  BY DEF Replying, Replies
<1>2. \A x \in Replying : asks[x] \in Replying /\ asks[x] = [v \in P |-> Says(v, x, row)]
  <2>1. \A x \in Replying : \A v \in P : Says(v, x, row) \in Replies
    BY SaysShorter
  <2> HIDE DEF P
  <2>2. Replying = [P -> Replies]
    BY DEF Replying, P
  <2> QED BY <2>1, <2>2
<1>3. \A i \in 1 .. n : move[i] = asks
  OBVIOUS
<1> HIDE DEF move, asks, a, D
<1>4. \A i \in 1 .. n : \A x \in Replying : move[i][x] \in Replying
  BY <1>2, <1>3
<1>5. PICK f : Folds(f, n, Replying, a, move)
  BY <1>1, <1>4, FoldExists
<1>6. \A i \in 1 .. n : i - 1 \in 0 .. n /\ i \in 0 .. n
  OBVIOUS
<1>7. \A i \in 1 .. n : f[i] = [v \in P |-> Says(v, f[i - 1], row)]
  <2>1. \A i \in 1 .. n : f[i - 1] \in Replying /\ f[i] = asks[f[i - 1]]
    BY <1>3, <1>5, <1>6 DEF Folds
  <2> QED BY <1>2, <2>1
<1>8. f[0] = [v \in P |-> "none"]
  BY <1>5 DEF Folds, a
<1>9. \A i \in 0 .. n : f[i] = [v \in P |-> IF i = 0 THEN "none" ELSE Says(v, f[i - 1], row)]
  <2> SUFFICES ASSUME NEW i \in 0 .. n
               PROVE  f[i] = [v \in P |-> IF i = 0 THEN "none" ELSE Says(v, f[i - 1], row)]
    OBVIOUS
  <2> HIDE DEF P
  <2>1. CASE i = 0
    BY <1>8, <2>1
  <2>2. CASE i # 0
    <3>1. i \in 1 .. n
      BY <2>2
    <3> QED BY <1>7, <2>2, <3>1
  <2> QED BY <2>1, <2>2
<1>10. f = [i \in 0 .. n |-> f[i]]
  BY <1>5 DEF Folds
<1>11. f = [i \in 0 .. n |-> [v \in P |-> IF i = 0 THEN "none" ELSE Says(v, f[i - 1], row)]]
  <2> HIDE DEF P
  <2> QED BY ONLY <1>9, <1>10
<1>12. \A v \in P : f[0][v] = "none" /\ \A i \in 1 .. n : f[i][v] = Says(v, f[i - 1], row)
  <2> HIDE DEF P
  <2> QED BY ONLY <1>7, <1>8
<1>13. \A i \in 0 .. n : f[i] \in Replying
  BY <1>5 DEF Folds
<1> QED BY <1>11, <1>12, <1>13 DEF Chain, P

LEMMA MeaningByChain ==
  ASSUME NEW u \in Seq(Pieces), NEW row
  PROVE  \E f : Chain(f, Len(u), row) /\ Meaning(u, row) = f[Len(u)][u]
<1> DEFINE n == Len(u)
           Fits(f) == f = [i \in 0 .. Len(u) |->
                             [v \in Seq(Pieces) |-> IF i = 0 THEN "none" ELSE Says(v, f[i - 1], row)]]
           F == CHOOSE f : Fits(f)
<1>0. n \in Nat
  OBVIOUS
<1>1. Meaning(u, row) = F[n][u]
  BY DEF Meaning
<1>2. PICK f : Chain(f, n, row)
  <2> HIDE DEF n
  <2> QED BY <1>0, ChainExists
<1>3. Fits(f)
  BY <1>2 DEF Chain
<1>4. Fits(F)
  <2> HIDE DEF Fits
  <2> QED BY <1>3
<1> HIDE DEF F
<1>5. Chain(F, n, row)
  <2> DEFINE P == Seq(Pieces)
  <2>1. F = [i \in 0 .. n |-> [v \in P |-> IF i = 0 THEN "none" ELSE Says(v, F[i - 1], row)]]
    BY <1>4
  <2> HIDE DEF P, n
  <2>2. \A i \in 0 .. n : F[i] = [v \in P |-> IF i = 0 THEN "none" ELSE Says(v, F[i - 1], row)]
    BY <2>1
  <2>3. 0 \in 0 .. n /\ \A i \in 1 .. n : i \in 0 .. n /\ i # 0 /\ i - 1 \in 0 .. n
    BY <1>0
  <2>4. \A v \in P : F[0][v] = "none" /\ \A i \in 1 .. n : F[i][v] = Says(v, F[i - 1], row)
    BY <2>2, <2>3
  <2>5. \A i \in 0 .. n : F[i] \in Replying
    <3>1. F[0] \in Replying
      <4>1. F[0] = [v \in P |-> "none"]
        BY <2>2, <2>3
      <4> QED BY <4>1 DEF Replying, Replies, P
    <3>2. ASSUME NEW i \in 1 .. n, F[i - 1] \in Replying PROVE F[i] \in Replying
      <4>1. \A v \in P : Says(v, F[i - 1], row) \in Replies
        BY <3>2, SaysShorter DEF P
      <4>2. F[i] = [v \in P |-> Says(v, F[i - 1], row)]
        BY <2>2, <2>3
      <4> QED BY <4>1, <4>2 DEF Replying, P
    <3> QED BY <1>0, <3>1, <3>2, FoldStays
  <2> QED BY <2>1, <2>4, <2>5 DEF Chain, P
<1> QED BY <1>1, <1>5

(* Once there are as many turns as pieces, more of them change nothing.     *)
LEMMA ChainsAgree ==
  ASSUME NEW n \in Nat, NEW m \in Nat, NEW row, NEW f, NEW g, Chain(f, n, row), Chain(g, m, row),
         NEW i \in 0 .. n, NEW j \in 0 .. m, NEW v \in Seq(Pieces), Len(v) <= i, Len(v) <= j
  PROVE  f[i][v] = g[j][v]
<1> DEFINE P == Seq(Pieces)
           Same(l) == \A w \in P : Len(w) <= l =>
                        \A p \in 0 .. n, q \in 0 .. m : Len(w) <= p /\ Len(w) <= q => f[p][w] = g[q][w]
           S == {l \in 0 .. n : Same(l)}
<1>0. \A w \in P : Len(w) \in Nat /\ (Len(w) = 0 => w = <<>>)
  OBVIOUS
<1>1. ASSUME NEW w \in P, NEW p \in 0 .. n, NEW q \in 0 .. m, Len(w) <= p, Len(w) <= q, Len(w) # 0,
             \A x \in P : Len(x) < Len(w) =>
               \A pp \in 0 .. n, qq \in 0 .. m : Len(x) <= pp /\ Len(x) <= qq => f[pp][x] = g[qq][x]
      PROVE  f[p][w] = g[q][w]
  <2>1. p \in 1 .. n /\ q \in 1 .. m /\ p - 1 \in 0 .. n /\ q - 1 \in 0 .. m
    BY <1>0, <1>1
  <2>2. \A x \in P : Len(x) < Len(w) => Len(x) <= p - 1 /\ Len(x) <= q - 1
    BY <1>0, <1>1, <2>1
  <2> DEFINE pp == p - 1
             qq == q - 1
  <2>3. \A x \in P : Len(x) < Len(w) => f[pp][x] = g[qq][x]
    <3>1. pp \in 0 .. n /\ qq \in 0 .. m /\ \A x \in P : Len(x) < Len(w) => Len(x) <= pp /\ Len(x) <= qq
      BY <2>1, <2>2
    <3> HIDE DEF pp, qq, P
    <3> QED BY <1>1, <3>1
  <2>4. f[p][w] = Says(w, f[pp], row) /\ g[q][w] = Says(w, g[qq], row)
    BY <2>1 DEF Chain
  <2> DEFINE x == f[pp]
             y == g[qq]
  <2> HIDE DEF pp, qq
  <2>5. \A z \in Seq(Pieces) : Len(z) < Len(w) => x[z] = y[z]
    BY <2>3
  <2> HIDE DEF x, y
  <2>6. Says(w, x, row) = Says(w, y, row)
    BY <2>5, SaysShorter
  <2> QED BY <2>4, <2>6 DEF x, y
<1>2. Same(0)
  <2> SUFFICES ASSUME NEW w \in P, Len(w) <= 0, NEW p \in 0 .. n, NEW q \in 0 .. m PROVE f[p][w] = g[q][w]
    OBVIOUS
  <2>1. w = <<>> /\ Len(w) = 0
    BY <1>0
  <2>2. \A x, r : Says(w, x, r) = "none"
    BY <2>1, SaysNothing
  <2>3. f[p][w] = "none"
    <3>1. CASE p = 0
      BY <3>1 DEF Chain
    <3>2. CASE p # 0
      <4>1. p \in 1 .. n
        BY <3>2
      <4> QED BY <2>2, <4>1 DEF Chain
    <3> QED BY <3>1, <3>2
  <2>4. g[q][w] = "none"
    <3>1. CASE q = 0
      BY <3>1 DEF Chain
    <3>2. CASE q # 0
      <4>1. q \in 1 .. m
        BY <3>2
      <4> QED BY <2>2, <4>1 DEF Chain
    <3> QED BY <3>1, <3>2
  <2> QED BY <2>3, <2>4
<1>3. ASSUME NEW l \in 0 .. n - 1, l \in S PROVE l + 1 \in S
  <2>1. Same(l)
    BY <1>3
  <2>2. Same(l + 1)
    <3> SUFFICES ASSUME NEW w \in P, Len(w) <= l + 1, NEW p \in 0 .. n, NEW q \in 0 .. m,
                        Len(w) <= p, Len(w) <= q
                 PROVE  f[p][w] = g[q][w]
      OBVIOUS
    <3>1. CASE Len(w) <= l
      BY <2>1, <3>1
    <3>2. CASE ~ (Len(w) <= l)
      <4>1. Len(w) # 0 /\ \A x \in P : Len(x) < Len(w) => Len(x) <= l
        BY <1>0, <3>2
      <4>2. \A x \in P : Len(x) < Len(w) =>
              \A pp \in 0 .. n, qq \in 0 .. m : Len(x) <= pp /\ Len(x) <= qq => f[pp][x] = g[qq][x]
        BY <2>1, <4>1
      <4> HIDE DEF P
      <4> QED BY <1>1, <4>1, <4>2
    <3> QED BY <3>1, <3>2
  <2>3. l + 1 \in 0 .. n
    OBVIOUS
  <2> HIDE DEF Same
  <2> QED BY <2>2, <2>3
<1>4. 0 .. n \subseteq S
  <2>1. 0 \in S
    <3> HIDE DEF Same
    <3> QED BY <1>2
  <2> HIDE DEF S
  <2> QED BY <1>3, <2>1, UpTo
<1>5. Same(i)
  BY <1>4
<1> QED BY <1>5

(* Meaning, by what shorter sequences mean.                                 *)
LEMMA MeaningSays ==
  ASSUME NEW u \in Seq(Pieces), NEW row
  PROVE  \E x : /\ Meaning(u, row) = Says(u, x, row) /\ Meaning(u, row) \in Replies
                /\ \A w \in Seq(Pieces) : Len(w) < Len(u) => x[w] = Meaning(w, row)
<1>1. PICK f : Chain(f, Len(u), row) /\ Meaning(u, row) = f[Len(u)][u]
  BY MeaningByChain
<1> DEFINE n == Len(u)
<1>0. n \in Nat /\ n \in 0 .. n
  OBVIOUS
<1>2. Meaning(u, row) \in Replies
  <2>1. f[n] \in Replying
    BY <1>0, <1>1 DEF Chain
  <2> QED BY <1>1, <2>1 DEF Replying
<1>3. CASE n = 0
  <2>1. Meaning(u, row) = "none"
    BY <1>1, <1>3 DEF Chain
  <2>4. Says(u, f, row) = "none"
    BY <1>3, SaysNothing
  <2>5. \A w \in Seq(Pieces) : ~ (Len(w) < Len(u))
    BY <1>3
  <2> QED BY <1>2, <2>1, <2>4, <2>5
<1>4. CASE n # 0
  <2> DEFINE j == n - 1
  <2>1. n \in 1 .. n /\ j \in 0 .. n
    BY <1>0, <1>4
  <2>2. Meaning(u, row) = Says(u, f[j], row)
    BY <1>1, <2>1 DEF Chain
  <2>3. ASSUME NEW w \in Seq(Pieces), Len(w) < Len(u) PROVE f[j][w] = Meaning(w, row)
    <3>1. PICK g : Chain(g, Len(w), row) /\ Meaning(w, row) = g[Len(w)][w]
      BY MeaningByChain
    <3>2. Len(w) \in Nat /\ Len(w) \in 0 .. Len(w) /\ Len(w) <= j
      BY <1>0, <2>3
    <3> HIDE DEF j, n
    <3>3. f[j][w] = g[Len(w)][w]
      BY <1>0, <1>1, <2>1, <3>1, <3>2, ChainsAgree DEF n
    <3> QED BY <3>1, <3>3
  <2> QED BY <1>2, <2>2, <2>3
<1> QED BY <1>3, <1>4

-----------------------------------------------------------------------------
(* What a segment of the pieces means, by positions.                        *)
SegMeans(c, k, m, row) == Meaning(Seg(c, k, m), row)

LEMMA MeansSplit ==
  ASSUME NEW c \in Seq(Pieces), NEW h, Heights(c, h), NEW m \in 0 .. Len(c), NEW k \in 0 .. m, NEW row,
         NEW kw \in {"AND", "OR"}, NEW i \in SepAt(c, h, k, m, kw),
         \A j \in SepAt(c, h, k, m, kw) : j <= i, kw = "AND" => SepAt(c, h, k, m, "OR") = {}
  PROVE  SegMeans(c, k, m, row) = Combined(kw, SegMeans(c, k, i - 1, row), SegMeans(c, i, m, row))
<1>0. Len(c) \in Nat /\ k \in Nat /\ m \in Nat /\ i \in k + 1 .. m /\ i \in Nat
  BY DEF SepAt
<1> SUFFICES ASSUME NEW u, u = Seg(c, k, m), NEW n, n = m - k, NEW p, p = i - k
             PROVE  SegMeans(c, k, m, row) = Combined(kw, SegMeans(c, k, i - 1, row), SegMeans(c, i, m, row))
  OBVIOUS
<1>1. u \in Seq(Pieces) /\ Len(u) = n /\ n \in Nat /\ p \in 1 .. n /\ k + p = i
  <2>1. Seg(c, k, m) \in Seq(Pieces) /\ Len(Seg(c, k, m)) = m - k
    BY SegIs
  <2>2. n \in Nat /\ p \in 1 .. n /\ k + p = i
    BY <1>0
  <2> QED BY <2>1, <2>2
<1>2. \A kx : Separators(u, kx) = {j \in 1 .. n : k + j \in SepAt(c, h, k, m, kx)}
  <2>1. \A kx : Separators(u, kx) = {j \in 1 .. m - k : k + j \in SepAt(c, h, k, m, kx)}
    BY SeparatorsAre
  <2> QED BY <2>1
<1>3. p \in Separators(u, kw)
  BY <1>1, <1>2
<1>4. \A j \in Separators(u, kw) : j <= p
  <2>1. \A j \in Separators(u, kw) : j \in 1 .. n /\ k + j <= i
    BY <1>2
  <2> QED BY <2>1, <1>0, <1>1
<1>5. kw = "AND" => Separators(u, "OR") = {}
  BY <1>2
<1>6. PICK x : /\ Meaning(u, row) = Says(u, x, row)
               /\ \A w \in Seq(Pieces) : Len(w) < Len(u) => x[w] = Meaning(w, row)
  BY <1>1, MeaningSays
<1>7. Says(u, x, row) = Combined(kw, x[Seg(u, 0, p - 1)], x[Seg(u, p, Len(u))])
  <2>1. u \in Seq(Pieces) /\ kw \in {"AND", "OR"}
    BY <1>1
  <2> QED BY ONLY <2>1, <1>3, <1>4, <1>5, SaysSplit
<1> DEFINE q == p - 1
           l == i - 1
<1>8. /\ q \in 0 .. n /\ 0 \in 0 .. q /\ k + 0 = k /\ k + q = l /\ n \in 0 .. n /\ p \in 0 .. n /\ k + n = m
      /\ q - 0 < n /\ n - p < n /\ l \in 0 .. Len(c) /\ k \in 0 .. l /\ i \in 0 .. m
      /\ l - k < n /\ m - i < n
  BY <1>0, <1>1
<1>9. Seg(u, 0, q) = Seg(c, k, l) /\ Seg(u, p, n) = Seg(c, i, m)
  <2> HIDE DEF q, l
  <2>1. Seg(u, 0, q) = Seg(c, k + 0, k + q)
    BY <1>8, SegSeg
  <2>2. Seg(u, p, n) = Seg(c, k + p, k + n)
    BY <1>8, SegSeg
  <2> QED BY <1>1, <1>8, <2>1, <2>2
<1>10. Seg(c, k, l) \in Seq(Pieces) /\ Len(Seg(c, k, l)) < Len(u)
  <2> HIDE DEF q, l
  <2> QED BY <1>1, <1>8, SegIs
<1>11. Seg(c, i, m) \in Seq(Pieces) /\ Len(Seg(c, i, m)) < Len(u)
  BY <1>1, <1>8, SegIs
<1>12. x[Seg(c, k, l)] = Meaning(Seg(c, k, l), row) /\ x[Seg(c, i, m)] = Meaning(Seg(c, i, m), row)
  BY <1>6, <1>10, <1>11
<1>13. Says(u, x, row) = Combined(kw, x[Seg(c, k, l)], x[Seg(c, i, m)])
  <2> HIDE DEF l
  <2> QED BY <1>1, <1>7, <1>9
<1> QED BY <1>6, <1>12, <1>13 DEF SegMeans

Parens(c, k, m) == m - k > 2 /\ c[k + 1] = <<LParen>> /\ c[m] = <<RParen>>

LEMMA MeansWhole ==
  ASSUME NEW c \in Seq(Pieces), NEW h, Heights(c, h), NEW m \in 0 .. Len(c), NEW k \in 0 .. m, NEW row,
         SepAt(c, h, k, m, "AND") = {}, SepAt(c, h, k, m, "OR") = {}
  PROVE  /\ Parens(c, k, m) => SegMeans(c, k, m, row) = SegMeans(c, k + 1, m - 1, row)
         /\ m - k = 1 => SegMeans(c, k, m, row) = PieceMeans(c[m], row)
         /\ ~ Parens(c, k, m) /\ m - k # 1 => SegMeans(c, k, m, row) = "none"
<1>0. Len(c) \in Nat /\ k \in Nat /\ m \in Nat
  OBVIOUS
<1> SUFFICES ASSUME NEW u, u = Seg(c, k, m), NEW n, n = m - k
             PROVE  /\ Parens(c, k, m) => SegMeans(c, k, m, row) = SegMeans(c, k + 1, m - 1, row)
                    /\ m - k = 1 => SegMeans(c, k, m, row) = PieceMeans(c[m], row)
                    /\ ~ Parens(c, k, m) /\ m - k # 1 => SegMeans(c, k, m, row) = "none"
  OBVIOUS
<1>1. u \in Seq(Pieces) /\ Len(u) = n /\ n \in Nat /\ \A i \in 1 .. n : u[i] = c[k + i]
  <2>1. /\ Seg(c, k, m) \in Seq(Pieces) /\ Len(Seg(c, k, m)) = m - k
        /\ \A i \in 1 .. m - k : Seg(c, k, m)[i] = c[k + i]
    BY SegIs
  <2>2. n \in Nat
    BY <1>0
  <2> QED BY <2>1, <2>2
<1>2. Separators(u, "OR") = {} /\ Separators(u, "AND") = {}
  <2>1. \A kx : Separators(u, kx) = {j \in 1 .. m - k : k + j \in SepAt(c, h, k, m, kx)}
    BY SeparatorsAre
  <2> QED BY <2>1
<1>3. n # 0 => u[1] = c[k + 1] /\ u[n] = c[m]
  <2>1. n # 0 => 1 \in 1 .. n /\ n \in 1 .. n /\ k + n = m
    BY <1>0, <1>1
  <2> QED BY <1>1, <2>1
<1>4. Enclosed(u) <=> Parens(c, k, m)
  <2>1. CASE n = 0
    BY <1>1, <2>1 DEF Enclosed, Parens
  <2>2. CASE n # 0
    BY <1>1, <1>3, <2>2 DEF Enclosed, Parens
  <2> QED BY <2>1, <2>2
<1>5. PICK x : /\ Meaning(u, row) = Says(u, x, row)
               /\ \A w \in Seq(Pieces) : Len(w) < Len(u) => x[w] = Meaning(w, row)
  BY <1>1, MeaningSays
<1>6. ASSUME Parens(c, k, m) PROVE SegMeans(c, k, m, row) = SegMeans(c, k + 1, m - 1, row)
  <2> DEFINE q == n - 1
             a == k + 1
             b == m - 1
  <2>1. Says(u, x, row) = x[Seg(u, 1, q)]
    <3>1. Enclosed(u) /\ Len(u) - 1 = q
      BY <1>1, <1>4, <1>6
    <3>2. Enclosed(u) => Says(u, x, row) = x[Seg(u, 1, Len(u) - 1)]
      BY <1>1, <1>2, SaysWhole
    <3> HIDE DEF q
    <3> QED BY <3>1, <3>2
  <2>2. /\ q \in 0 .. n /\ 1 \in 0 .. q /\ k + q = b /\ b \in 0 .. Len(c) /\ a \in 0 .. b /\ b - a < n /\ n \in 0 .. n
    <3>1. k \in Nat /\ m \in Nat /\ n = m - k /\ m - k > 2 /\ m \in 0 .. Len(c) /\ Len(c) \in Nat
      BY <1>0, <1>6 DEF Parens
    <3> QED BY ONLY <3>1
  <2>3. Seg(u, 1, q) = Seg(c, a, b)
    <3>1. Seg(u, 1, q) = Seg(c, k + 1, k + q)
      <4> HIDE DEF q
      <4> QED BY <2>2, SegSeg
    <3> QED BY <2>2, <3>1
  <2>4. Seg(c, a, b) \in Seq(Pieces) /\ Len(Seg(c, a, b)) < Len(u)
    <3> HIDE DEF a, b
    <3> QED BY <1>1, <2>2, SegIs
  <2> HIDE DEF a, b
  <2>5. SegMeans(c, k, m, row) = SegMeans(c, a, b, row)
    BY <1>5, <2>1, <2>3, <2>4 DEF SegMeans
  <2> QED BY <2>5 DEF a, b
<1>7. ASSUME m - k = 1 PROVE SegMeans(c, k, m, row) = PieceMeans(c[m], row)
  <2>1. Len(u) = 1 /\ u[1] = c[m]
    BY <1>0, <1>1, <1>3, <1>7
  <2> QED BY <1>1, <1>2, <1>5, <2>1, SaysWhole DEF SegMeans
<1>8. ASSUME ~ Parens(c, k, m), m - k # 1 PROVE SegMeans(c, k, m, row) = "none"
  <2>1. ~ Enclosed(u) /\ Len(u) # 1
    BY <1>1, <1>4, <1>8
  <2> QED BY <1>1, <1>2, <1>5, <2>1, SaysWhole DEF SegMeans
<1> QED BY <1>6, <1>7, <1>8

LEMMA NoneCombined ==
  ASSUME NEW kw, NEW l, NEW r, Combined(kw, l, r) # "none"
  PROVE  l # "none" /\ r # "none"
BY DEF Combined

-----------------------------------------------------------------------------
(* What the functions of the parser return, on any tokens.                  *)
NodesOf(ts) ==
  {parse_predicate(ts, i).nodes[1] : i \in Nat}
    \cup [kind : {"and", "or"}, left : Nat, right : Nat] \cup [kind : {"paren"}, child : Nat]

Results(ts) == [ok : BOOLEAN, at : Nat, nodes : Seq(NodesOf(ts))]

Parsers(ts) == [Nat -> [Nat -> Results(ts)]]

LEMMA PredicateShape ==
  ASSUME NEW ts, NEW i \in Nat
  PROVE  \/ parse_predicate(ts, i) = Failed(i)
         \/ \E at \in Nat : \E x : parse_predicate(ts, i) = Parsed(at, <<x>>)
<1>0. i + 3 \in Nat /\ i + 5 \in Nat
  OBVIOUS
<1>1. CASE ~ IsA(ts, i, "ident")
  BY ONLY <1>1 DEF parse_predicate
<1>2. CASE IsA(ts, i, "ident") /\ TokenAt(ts, i + 1) = Kw("BETWEEN")
  <2>1. TokenAt(ts, i + 1) # Kw("LIKE") /\ ~ IsA(ts, i + 1, "op")
    BY <1>2 DEF Kw, IsA
  <2>2. \/ parse_predicate(ts, i) = Failed(i)
        \/ \E x : parse_predicate(ts, i) = Parsed(i + 5, <<x>>)
    BY ONLY <1>2, <2>1 DEF parse_predicate
  <2> QED BY <1>0, <2>2
<1>3. CASE IsA(ts, i, "ident") /\ TokenAt(ts, i + 1) = Kw("LIKE")
  <2>1. TokenAt(ts, i + 1) # Kw("BETWEEN") /\ ~ IsA(ts, i + 1, "op")
    BY <1>3 DEF Kw, IsA
  <2>2. \/ parse_predicate(ts, i) = Failed(i)
        \/ \E x : parse_predicate(ts, i) = Parsed(i + 3, <<x>>)
    BY ONLY <1>3, <2>1 DEF parse_predicate
  <2> QED BY <1>0, <2>2
<1>4. CASE IsA(ts, i, "ident") /\ IsA(ts, i + 1, "op")
  <2>1. TokenAt(ts, i + 1) # Kw("BETWEEN") /\ TokenAt(ts, i + 1) # Kw("LIKE")
    BY <1>4 DEF Kw, IsA
  <2>2. CASE IsA(ts, i + 2, "ident")
    <3>1. ~ IsLiteral(ts, i + 2)
      BY <2>2 DEF IsA, IsLiteral, Kw
    <3>2. \E x : parse_predicate(ts, i) = Parsed(i + 3, <<x>>)
      BY ONLY <1>4, <2>1, <2>2, <3>1 DEF parse_predicate
    <3> QED BY <1>0, <3>2
  <2>3. CASE ~ IsA(ts, i + 2, "ident") /\ IsLiteral(ts, i + 2)
    <3>2. \E x : parse_predicate(ts, i) = Parsed(i + 3, <<x>>)
      BY ONLY <1>4, <2>1, <2>3 DEF parse_predicate
    <3> QED BY <1>0, <3>2
  <2>4. CASE ~ IsA(ts, i + 2, "ident") /\ ~ IsLiteral(ts, i + 2)
    BY ONLY <1>4, <2>1, <2>4 DEF parse_predicate
  <2> QED BY <2>2, <2>3, <2>4
<1>5. CASE /\ IsA(ts, i, "ident") /\ ~ IsA(ts, i + 1, "op")
           /\ TokenAt(ts, i + 1) # Kw("BETWEEN") /\ TokenAt(ts, i + 1) # Kw("LIKE")
  BY ONLY <1>5 DEF parse_predicate
<1> QED BY <1>1, <1>2, <1>3, <1>4, <1>5

LEMMA FailedIs ==
  ASSUME NEW ts, NEW i \in Nat
  PROVE  Failed(i) \in Results(ts) /\ ~ Failed(i).ok /\ Failed(i).at = i
BY DEF Failed, Results

LEMMA ParsedIs ==
  ASSUME NEW ts, NEW i \in Nat, NEW nodes \in Seq(NodesOf(ts))
  PROVE  /\ Parsed(i, nodes) \in Results(ts)
         /\ Parsed(i, nodes).ok /\ Parsed(i, nodes).at = i /\ Parsed(i, nodes).nodes = nodes
BY DEF Parsed, Results

LEMMA PredicateResult ==
  ASSUME NEW ts, NEW i \in Nat
  PROVE  parse_predicate(ts, i) \in Results(ts)
<1>1. CASE parse_predicate(ts, i) = Failed(i)
  BY <1>1, FailedIs
<1>2. ASSUME NEW at \in Nat, NEW x, parse_predicate(ts, i) = Parsed(at, <<x>>)
      PROVE  parse_predicate(ts, i) \in Results(ts)
  <2>1. parse_predicate(ts, i).nodes[1] = x
    <3>1. Parsed(at, <<x>>).nodes = <<x>>
      BY DEF Parsed
    <3> QED BY <1>2, <3>1
  <2>2. x \in NodesOf(ts)
    BY <2>1 DEF NodesOf
  <2>3. <<x>> \in Seq(NodesOf(ts))
    BY <2>2
  <2> QED BY <1>2, <2>3, ParsedIs
<1> QED BY <1>1, <1>2, PredicateShape

LEMMA PrimaryIs ==
  ASSUME NEW ts, NEW inside \in Parsers(ts), NEW i \in Nat, NEW s \in Nat
  PROVE  /\ TokenAt(ts, i) # LParen => parse_bool_primary(ts, inside)[i][s] = parse_predicate(ts, i)
         /\ TokenAt(ts, i) = LParen =>
              LET inner == inside[i + 1][s]
                  paren == [kind |-> "paren", child |-> s + Len(inner.nodes)]
              IN  /\ inner \in Results(ts) /\ paren \in NodesOf(ts)
                  /\ parse_bool_primary(ts, inside)[i][s]
                       = IF inner.ok /\ TokenAt(ts, inner.at) = RParen
                         THEN Parsed(inner.at + 1, Append(inner.nodes, paren)) ELSE Failed(inner.at)
         /\ parse_bool_primary(ts, inside)[i][s] \in Results(ts)
         /\ parse_bool_primary(ts, inside) \in Parsers(ts)
<1> DEFINE F == parse_bool_primary(ts, inside)
<1>1. ASSUME NEW j \in Nat, NEW n \in Nat, TokenAt(ts, j) # LParen
      PROVE  F[j][n] = parse_predicate(ts, j) /\ F[j][n] \in Results(ts)
  <2>1. F[j][n] = parse_predicate(ts, j)
    BY <1>1 DEF parse_bool_primary
  <2> QED BY <2>1, PredicateResult
<1>2. ASSUME NEW j \in Nat, NEW n \in Nat, TokenAt(ts, j) = LParen
      PROVE  LET inner == inside[j + 1][n]
                 paren == [kind |-> "paren", child |-> n + Len(inner.nodes)]
             IN  /\ inner \in Results(ts) /\ paren \in NodesOf(ts)
                 /\ F[j][n] = IF inner.ok /\ TokenAt(ts, inner.at) = RParen
                              THEN Parsed(inner.at + 1, Append(inner.nodes, paren)) ELSE Failed(inner.at)
                 /\ F[j][n] \in Results(ts)
  <2> DEFINE inner == inside[j + 1][n]
             paren == [kind |-> "paren", child |-> n + Len(inner.nodes)]
  <2>1. F[j][n] = IF inner.ok /\ TokenAt(ts, inner.at) = RParen
                  THEN Parsed(inner.at + 1, Append(inner.nodes, paren)) ELSE Failed(inner.at)
    BY <1>2 DEF parse_bool_primary
  <2>2. inner \in Results(ts)
    <3>1. j + 1 \in Nat
      OBVIOUS
    <3> QED BY <3>1 DEF Parsers
  <2> HIDE DEF inner
  <2>3. inner.at \in Nat /\ inner.at + 1 \in Nat /\ inner.nodes \in Seq(NodesOf(ts)) /\ Len(inner.nodes) \in Nat
    BY <2>2 DEF Results
  <2>4. n + Len(inner.nodes) \in Nat
    BY <2>3
  <2>5. paren \in NodesOf(ts)
    BY <2>4 DEF NodesOf
  <2> HIDE DEF paren
  <2>6. Append(inner.nodes, paren) \in Seq(NodesOf(ts))
    BY <2>3, <2>5, AppendProperties
  <2>7. F[j][n] \in Results(ts)
    <3>1. Failed(inner.at) \in Results(ts)
      BY <2>3, FailedIs
    <3>2. \A q \in Nat, x \in Seq(NodesOf(ts)) : Parsed(q, x) \in Results(ts)
      BY ParsedIs
    <3>3. Parsed(inner.at + 1, Append(inner.nodes, paren)) \in Results(ts)
      BY ONLY <2>3, <2>6, <3>2
    <3> HIDE DEF F
    <3> QED BY ONLY <2>1, <3>1, <3>3
  <2> QED BY <2>1, <2>2, <2>5, <2>7 DEF inner, paren
<1>3. \A j \in Nat, n \in Nat : F[j][n] \in Results(ts)
  BY <1>1, <1>2
<1>4. F \in Parsers(ts)
  <2>1. F = [j \in Nat |-> [n \in Nat |-> F[j][n]]]
    BY DEF parse_bool_primary
  <2> HIDE DEF F
  <2> QED BY <1>3, <2>1 DEF Parsers
<1> QED BY <1>1, <1>2, <1>3, <1>4

-----------------------------------------------------------------------------
(* The loops, turn by turn.                                                 *)
Turn(ts, kw, kind, operand, s, left) ==
  IF left.ok /\ TokenAt(ts, left.at) = Kw(kw) THEN Joined(kind, operand, s, left) ELSE left

Turns(f, ts, kw, kind, operand, i, s) ==
  /\ f[0] = operand[i][s]
  /\ \A n \in 1 .. Len(ts) : f[n] = Turn(ts, kw, kind, operand, s, f[n - 1])
  /\ \A n \in 0 .. Len(ts) : f[n] \in Results(ts)

LEMMA JoinedIs ==
  ASSUME NEW ts, NEW kind \in {"and", "or"}, NEW operand \in Parsers(ts), NEW s \in Nat,
         NEW left \in Results(ts)
  PROVE  LET l     == s + Len(left.nodes)
             right == operand[left.at + 1][l]
             node  == [kind |-> kind, left |-> l, right |-> l + Len(right.nodes)]
         IN  /\ l \in Nat /\ left.at + 1 \in Nat /\ right \in Results(ts) /\ node \in NodesOf(ts)
             /\ Joined(kind, operand, s, left) \in Results(ts)
             /\ right.ok => Joined(kind, operand, s, left)
                              = Parsed(right.at, left.nodes \o right.nodes \o <<node>>)
             /\ ~ right.ok => ~ Joined(kind, operand, s, left).ok
<1> DEFINE l     == s + Len(left.nodes)
           a     == left.at + 1
           right == operand[a][l]
           node  == [kind |-> kind, left |-> l, right |-> l + Len(right.nodes)]
           J     == Joined(kind, operand, s, left)
<1>1. left.nodes \in Seq(NodesOf(ts)) /\ left.at \in Nat
  BY DEF Results
<1>2. l \in Nat /\ a \in Nat
  BY <1>1
<1>3. J = IF right.ok THEN Parsed(right.at, left.nodes \o right.nodes \o <<node>>) ELSE Failed(right.at)
  BY DEF Joined
<1>4. right \in Results(ts)
  <2> HIDE DEF l, a
  <2> QED BY <1>2 DEF Parsers
<1> HIDE DEF right, J
<1>5. right.at \in Nat /\ right.nodes \in Seq(NodesOf(ts)) /\ right.ok \in BOOLEAN
  BY <1>4 DEF Results
<1>6. node \in NodesOf(ts)
  <2> HIDE DEF l
  <2>1. l + Len(right.nodes) \in Nat
    <3>1. Len(right.nodes) \in Nat
      BY <1>5, LenProperties
    <3> QED BY <1>2, <3>1
  <2> QED BY <1>2, <2>1 DEF NodesOf
<1> HIDE DEF node
<1> DEFINE N == NodesOf(ts)
           x == left.nodes \o right.nodes \o <<node>>
<1>7. x \in Seq(N)
  <2>1. left.nodes \o right.nodes \in Seq(N) /\ <<node>> \in Seq(N)
    BY <1>1, <1>5, <1>6, ConcatProperties
  <2> QED BY <2>1, ConcatProperties
<1> HIDE DEF x
<1>8. J \in Results(ts)
  <2>1. Parsed(right.at, x) \in Results(ts) /\ Failed(right.at) \in Results(ts)
    BY <1>5, <1>7, ParsedIs, FailedIs
  <2> QED BY ONLY <1>3, <2>1 DEF x
<1>9. right.ok => J = Parsed(right.at, left.nodes \o right.nodes \o <<node>>)
  BY ONLY <1>3
<1>10. ~ right.ok => ~ J.ok
  BY <1>3, <1>5, FailedIs
<1> QED BY <1>2, <1>4, <1>6, <1>8, <1>9, <1>10 DEF right, J, node

LEMMA TurnStays ==
  ASSUME NEW ts, NEW kw, NEW kind \in {"and", "or"}, NEW operand \in Parsers(ts), NEW s \in Nat,
         NEW left \in Results(ts)
  PROVE  Turn(ts, kw, kind, operand, s, left) \in Results(ts)
<1>1. Joined(kind, operand, s, left) \in Results(ts)
  BY JoinedIs
<1> QED BY <1>1 DEF Turn

LoopEnds(ts, kw, kind, operand, i, s) ==
  \E f : Turns(f, ts, kw, kind, operand, i, s) /\ Loop(ts, kw, kind, operand)[i][s] = f[Len(ts)]

LEMMA LoopTurns ==
  ASSUME NEW ts, Len(ts) \in Nat, NEW kw, NEW kind \in {"and", "or"}, NEW operand \in Parsers(ts),
         NEW i \in Nat, NEW s \in Nat
  PROVE  LoopEnds(ts, kw, kind, operand, i, s)
<1> DEFINE R == Results(ts)
           m == Len(ts)
           go(x) == Turn(ts, kw, kind, operand, s, x)
           once == [x \in R |-> go(x)]
           move == [n \in 1 .. m |-> once]
           a == operand[i][s]
           Fits(f) == f = [n \in 0 .. m |-> IF n = 0 THEN a ELSE go(f[n - 1])]
           F == CHOOSE f : Fits(f)
<1>1. a \in R
  BY DEF Parsers
<1>2. \A x \in R : once[x] = go(x) /\ go(x) \in R
  <2>1. \A x \in R : go(x) \in R
    BY TurnStays
  <2> HIDE DEF go
  <2> QED BY <2>1
<1>3. \A n \in 1 .. m : move[n] = once
  OBVIOUS
<1>4. Loop(ts, kw, kind, operand)[i][s] = F[m]
  <2>1. \A f : Fits(f) <=>
          f = [n \in 0 .. m |->
                 IF n = 0 THEN operand[i][s]
                 ELSE LET left == f[n - 1]
                      IN  IF left.ok /\ TokenAt(ts, left.at) = Kw(kw)
                          THEN Joined(kind, operand, s, left) ELSE left]
    BY DEF Turn
  <2> QED BY <2>1 DEF Loop, Turn
<1> HIDE DEF move, once, a, R, m, go
<1>5. m \in Nat
  BY DEF m
<1>6. PICK f : Folds(f, m, R, a, move)
  <2>1. \A n \in 1 .. m : \A x \in R : move[n][x] \in R
    BY <1>2, <1>3
  <2> QED BY <1>1, <1>5, <2>1, FoldExists
<1>7. \A n \in 1 .. m : n - 1 \in 0 .. m /\ n \in 0 .. m /\ n # 0
  BY <1>5
<1>8. \A n \in 1 .. m : f[n] = go(f[n - 1])
  <2>1. \A n \in 1 .. m : f[n - 1] \in R /\ f[n] = once[f[n - 1]]
    BY <1>3, <1>6, <1>7 DEF Folds
  <2> QED BY <1>2, <2>1
<1>9. Fits(f)
  <2>1. \A n \in 0 .. m : f[n] = IF n = 0 THEN a ELSE go(f[n - 1])
    <3>1. f[0] = a
      BY <1>6 DEF Folds
    <3>2. \A n \in 0 .. m : n # 0 => n \in 1 .. m
      BY <1>5
    <3> QED BY <1>8, <3>1, <3>2
  <2>2. f = [n \in 0 .. m |-> f[n]]
    BY <1>6 DEF Folds
  <2> QED BY ONLY <2>1, <2>2
<1>10. Fits(F)
  <2> HIDE DEF Fits
  <2> QED BY <1>9
<1> HIDE DEF F
<1>11. F[0] = a /\ \A n \in 1 .. m : F[n] = go(F[n - 1])
  <2> DEFINE D == 0 .. m
  <2>1. F = [n \in D |-> IF n = 0 THEN a ELSE go(F[n - 1])]
    BY <1>10
  <2>2. 0 \in D /\ \A n \in 1 .. m : n \in D /\ n # 0
    BY <1>5, <1>7
  <2> HIDE DEF D
  <2> QED BY ONLY <2>1, <2>2
<1>12. \A n \in 0 .. m : F[n] \in R
  <2>1. \A n \in 1 .. m : F[n - 1] \in R => F[n] \in R
    BY <1>2, <1>11
  <2> QED BY <1>1, <1>5, <1>11, <2>1, FoldStays
<1>13. Turns(F, ts, kw, kind, operand, i, s)
  BY <1>11, <1>12 DEF Turns, a, go, m, R
<1> QED BY <1>4, <1>13 DEF m, LoopEnds

LEMMA LoopIs ==
  ASSUME NEW ts, Len(ts) \in Nat, NEW kw, NEW kind \in {"and", "or"}, NEW operand \in Parsers(ts)
  PROVE  Loop(ts, kw, kind, operand) \in Parsers(ts)
<1> DEFINE F == Loop(ts, kw, kind, operand)
<1>1. \A i \in Nat, s \in Nat : F[i][s] \in Results(ts)
  <2> SUFFICES ASSUME NEW i \in Nat, NEW s \in Nat PROVE F[i][s] \in Results(ts)
    OBVIOUS
  <2>0. LoopEnds(ts, kw, kind, operand, i, s)
    BY LoopTurns
  <2>1. PICK f : Turns(f, ts, kw, kind, operand, i, s) /\ F[i][s] = f[Len(ts)]
    BY <2>0 DEF LoopEnds
  <2>2. Len(ts) \in 0 .. Len(ts)
    OBVIOUS
  <2> HIDE DEF F
  <2> QED BY <2>1, <2>2 DEF Turns
<1>2. F = [i \in Nat |-> [s \in Nat |-> F[i][s]]]
  BY DEF Loop
<1> HIDE DEF F
<1>3. F \in Parsers(ts)
  BY <1>1, <1>2 DEF Parsers
<1> QED BY <1>3 DEF F

Nested(g, ts) ==
  /\ \A i \in Nat, s \in Nat : g[0][i][s] = Failed(i)
  /\ \A n \in 1 .. Len(ts) : g[n] = Disjunction(ts, g[n - 1])
  /\ \A n \in 0 .. Len(ts) : g[n] \in Parsers(ts)

LEMMA DisjunctionIs ==
  ASSUME NEW ts, Len(ts) \in Nat, NEW inside \in Parsers(ts)
  PROVE  /\ parse_bool_and(ts, inside) \in Parsers(ts)
         /\ Disjunction(ts, inside) \in Parsers(ts)
<1>1. parse_bool_primary(ts, inside) \in Parsers(ts)
  <2>1. 0 \in Nat
    OBVIOUS
  <2> QED BY <2>1, PrimaryIs
<1>2. parse_bool_and(ts, inside) \in Parsers(ts)
  BY <1>1, LoopIs DEF parse_bool_and
<1> QED BY <1>2, LoopIs DEF Disjunction

LEMMA OrNested ==
  ASSUME NEW ts, Len(ts) \in Nat
  PROVE  \E g : Nested(g, ts) /\ parse_bool_or(ts) = g[Len(ts)]
<1> DEFINE P == Parsers(ts)
           m == Len(ts)
           go(x) == Disjunction(ts, x)
           once == [x \in P |-> go(x)]
           move == [n \in 1 .. m |-> once]
           a == [i \in Nat |-> [s \in Nat |-> Failed(i)]]
           Fits(f) == f = [n \in 0 .. m |-> IF n = 0 THEN a ELSE go(f[n - 1])]
           F == CHOOSE f : Fits(f)
<1>1. a \in P
  <2>1. \A i \in Nat : Failed(i) \in Results(ts)
    BY FailedIs
  <2> QED BY <2>1 DEF Parsers
<1>2. \A x \in P : once[x] = go(x) /\ go(x) \in P
  <2>1. \A x \in P : go(x) \in P
    BY DisjunctionIs
  <2> HIDE DEF go
  <2> QED BY <2>1
<1>3. \A n \in 1 .. m : move[n] = once
  OBVIOUS
<1>4. parse_bool_or(ts) = F[m]
  BY DEF parse_bool_or
<1> HIDE DEF move, once, P, m, go
<1>5. m \in Nat
  BY DEF m
<1>a. \A i \in Nat, s \in Nat : a[i][s] = Failed(i)
  OBVIOUS
<1> HIDE DEF a
<1>6. PICK f : Folds(f, m, P, a, move)
  <2>1. \A n \in 1 .. m : \A x \in P : move[n][x] \in P
    BY <1>2, <1>3
  <2> QED BY <1>1, <1>5, <2>1, FoldExists
<1>7. \A n \in 1 .. m : n - 1 \in 0 .. m /\ n \in 0 .. m /\ n # 0
  BY <1>5
<1>8. \A n \in 1 .. m : f[n] = go(f[n - 1])
  <2>1. \A n \in 1 .. m : f[n - 1] \in P /\ f[n] = once[f[n - 1]]
    BY <1>3, <1>6, <1>7 DEF Folds
  <2> QED BY <1>2, <2>1
<1>9. Fits(f)
  <2>1. \A n \in 0 .. m : f[n] = IF n = 0 THEN a ELSE go(f[n - 1])
    <3>1. f[0] = a
      BY <1>6 DEF Folds
    <3>2. \A n \in 0 .. m : n # 0 => n \in 1 .. m
      BY <1>5
    <3> QED BY <1>8, <3>1, <3>2
  <2>2. f = [n \in 0 .. m |-> f[n]]
    BY <1>6 DEF Folds
  <2> QED BY ONLY <2>1, <2>2
<1>10. Fits(F)
  <2> HIDE DEF Fits
  <2> QED BY <1>9
<1> HIDE DEF F
<1>11. F[0] = a /\ \A n \in 1 .. m : F[n] = go(F[n - 1])
  <2> DEFINE D == 0 .. m
  <2>1. F = [n \in D |-> IF n = 0 THEN a ELSE go(F[n - 1])]
    BY <1>10
  <2>2. 0 \in D /\ \A n \in 1 .. m : n \in D /\ n # 0
    BY <1>5, <1>7
  <2> HIDE DEF D
  <2> QED BY ONLY <2>1, <2>2
<1>12. \A n \in 0 .. m : F[n] \in P
  <2>1. \A n \in 1 .. m : F[n - 1] \in P => F[n] \in P
    BY <1>2, <1>11
  <2> QED BY <1>1, <1>5, <1>11, <2>1, FoldStays
<1>13. \A i \in Nat, s \in Nat : F[0][i][s] = Failed(i)
  BY <1>a, <1>11
<1>14. Nested(F, ts)
  BY <1>11, <1>12, <1>13 DEF Nested, go, m, P
<1> QED BY <1>4, <1>14 DEF m

-----------------------------------------------------------------------------
(* The pieces c, where they end in the tokens, and how deep they stand.     *)
Reading(c, ts, b, h) ==
  c \in Seq(Pieces) /\ Len(ts) \in Nat /\ Laid(c, ts, b) /\ Heights(c, h)

Words == {<<LParen>>, <<RParen>>, <<Kw("AND")>>, <<Kw("OR")>>}

LEMMA FollowingPiece ==
  ASSUME NEW c, NEW ts, NEW b, NEW h, Reading(c, ts, b, h), NEW k \in 0 .. Len(c)
  PROVE  /\ FirstTokenOf(PieceAfter(c, k)) /\ b[k] \in Nat /\ b[k] + 1 \in Nat
         /\ TokenAt(ts, b[k] + 1) = PieceAfter(c, k)[1]
         /\ k < Len(c) => PieceAfter(c, k) = c[k + 1]
         /\ ~ (k < Len(c)) => PieceAfter(c, k) = <<End>>
         /\ k < Len(c) => c[k + 1] \in Pieces /\ b[k + 1] = b[k] + Len(c[k + 1])
<1>1. c \in Seq(Pieces) /\ Len(ts) \in Nat /\ Laid(c, ts, b)
  BY DEF Reading
<1>2. /\ \A j \in 1 .. Len(PieceAfter(c, k)) : TokenAt(ts, b[k] + j) = PieceAfter(c, k)[j]
      /\ k < Len(c) => PieceAfter(c, k) \in Pieces /\ b[k + 1] = b[k] + Len(PieceAfter(c, k))
      /\ b[k] \in Nat
  BY <1>1, AfterRead
<1>3. /\ k < Len(c) => PieceAfter(c, k) = c[k + 1]
      /\ ~ (k < Len(c)) => PieceAfter(c, k) = <<End>>
  BY DEF PieceAfter
<1>4. FirstTokenOf(PieceAfter(c, k))
  BY <1>2, <1>3, FirstToken
<1>5. 1 \in 1 .. Len(PieceAfter(c, k))
  BY <1>4 DEF FirstTokenOf
<1>6. TokenAt(ts, b[k] + 1) = PieceAfter(c, k)[1]
  BY <1>2, <1>5
<1> QED BY <1>2, <1>3, <1>4, <1>6

LEMMA WordAt ==
  ASSUME NEW c, NEW ts, NEW b, NEW h, Reading(c, ts, b, h), NEW k \in 0 .. Len(c), NEW x \in Words
  PROVE  /\ TokenAt(ts, b[k] + 1) = x[1] <=> k < Len(c) /\ c[k + 1] = x
         /\ k < Len(c) /\ c[k + 1] = x => b[k + 1] = b[k] + 1
<1>1. /\ FirstTokenOf(PieceAfter(c, k)) /\ TokenAt(ts, b[k] + 1) = PieceAfter(c, k)[1]
      /\ k < Len(c) => PieceAfter(c, k) = c[k + 1]
      /\ ~ (k < Len(c)) => PieceAfter(c, k) = <<End>>
      /\ k < Len(c) => b[k + 1] = b[k] + Len(c[k + 1])
  BY FollowingPiece
<1>2. PieceAfter(c, k)[1] = x[1] <=> PieceAfter(c, k) = x
  <2>1. CASE x = <<LParen>>
    BY <1>1, <2>1 DEF FirstTokenOf
  <2>2. CASE x = <<RParen>>
    BY <1>1, <2>2 DEF FirstTokenOf
  <2>3. CASE x = <<Kw("AND")>>
    BY <1>1, <2>3 DEF FirstTokenOf
  <2>4. CASE x = <<Kw("OR")>>
    BY <1>1, <2>4 DEF FirstTokenOf
  <2> QED BY <2>1, <2>2, <2>3, <2>4 DEF Words
<1>3. <<End>> # x /\ Len(x) = 1
  <2>1. \A y : <<y>>[1] = y /\ Len(<<y>>) = 1
    OBVIOUS
  <2>2. End[1] = "eof" /\ LParen[1] = "(" /\ RParen[1] = ")" /\ \A kw : Kw(kw)[1] = "kw"
    BY DEF End, LParen, RParen, Kw
  <2>3. CASE x = <<LParen>>
    BY ONLY <2>1, <2>2, <2>3
  <2>4. CASE x = <<RParen>>
    BY ONLY <2>1, <2>2, <2>4
  <2>5. CASE x \in {<<Kw("AND")>>, <<Kw("OR")>>}
    <3>1. PICK kw : x = <<Kw(kw)>>
      BY <2>5
    <3> QED BY ONLY <2>1, <2>2, <3>1
  <2> QED BY <2>3, <2>4, <2>5 DEF Words
<1>4. k < Len(c) /\ c[k + 1] = x => b[k + 1] = b[k] + 1
  BY <1>1, <1>3
<1>5. TokenAt(ts, b[k] + 1) = x[1] <=> k < Len(c) /\ c[k + 1] = x
  BY <1>1, <1>2, <1>3
<1> QED BY <1>4, <1>5

LEMMA WordsAre ==
  /\ \A x \in Words : \E t : x = <<t>>
  /\ <<LParen>> \in Words /\ <<LParen>>[1] = LParen /\ <<RParen>> \in Words /\ <<RParen>>[1] = RParen
  /\ \A kw \in {"AND", "OR"} : <<Kw(kw)>> \in Words /\ <<Kw(kw)>>[1] = Kw(kw)
  /\ LParen # RParen /\ \A kw : Kw(kw) # LParen /\ Kw(kw) # RParen
  /\ \A kw, kx : Kw(kw) = Kw(kx) => kw = kx
  /\ \A x \in Words : x \notin Predicates
<1>1. \A x \in Words : \E t : x = <<t>>
  BY DEF Words
<1>2. /\ <<LParen>> \in Words /\ <<LParen>>[1] = LParen /\ <<RParen>> \in Words /\ <<RParen>>[1] = RParen
      /\ \A kw \in {"AND", "OR"} : <<Kw(kw)>> \in Words /\ <<Kw(kw)>>[1] = Kw(kw)
  BY DEF Words
<1>3. LParen # RParen /\ \A kw : Kw(kw) # LParen /\ Kw(kw) # RParen
  BY DEF LParen, RParen, Kw
<1>4. \A kw, kx : Kw(kw) = Kw(kx) => kw = kx
  BY DEF Kw
<1>5. \A x \in Predicates : Len(x) # 1
  BY ComparisonIs, RangeIs, LikeIs, TrueIs DEF Predicates
<1>6. \A x \in Words : Len(x) = 1
  BY <1>1
<1> QED BY <1>1, <1>2, <1>3, <1>4, <1>5, <1>6

LEMMA KeywordAt ==
  ASSUME NEW c, NEW ts, NEW b, NEW h, Reading(c, ts, b, h), NEW k \in 0 .. Len(c), NEW kw \in {"AND", "OR"}
  PROVE  /\ TokenAt(ts, b[k] + 1) = Kw(kw) <=> k < Len(c) /\ c[k + 1] = <<Kw(kw)>>
         /\ k < Len(c) /\ c[k + 1] = <<Kw(kw)>> => b[k + 1] = b[k] + 1
<1> DEFINE x == <<Kw(kw)>>
<1>1. x \in Words /\ x[1] = Kw(kw)
  BY WordsAre
<1> HIDE DEF x
<1>2. /\ TokenAt(ts, b[k] + 1) = x[1] <=> k < Len(c) /\ c[k + 1] = x
      /\ k < Len(c) /\ c[k + 1] = x => b[k + 1] = b[k] + 1
  BY <1>1, WordAt
<1> QED BY <1>1, <1>2 DEF x

LEMMA ParenAt ==
  ASSUME NEW c, NEW ts, NEW b, NEW h, Reading(c, ts, b, h), NEW k \in 0 .. Len(c), NEW p \in {LParen, RParen}
  PROVE  /\ TokenAt(ts, b[k] + 1) = p <=> k < Len(c) /\ c[k + 1] = <<p>>
         /\ k < Len(c) /\ c[k + 1] = <<p>> => b[k + 1] = b[k] + 1
<1> DEFINE x == <<p>>
<1>1. x \in Words /\ x[1] = p
  BY WordsAre
<1> HIDE DEF x
<1>2. /\ TokenAt(ts, b[k] + 1) = x[1] <=> k < Len(c) /\ c[k + 1] = x
      /\ k < Len(c) /\ c[k + 1] = x => b[k + 1] = b[k] + 1
  BY <1>1, WordAt
<1> QED BY <1>1, <1>2 DEF x

LEMMA PredicateAt ==
  ASSUME NEW c, NEW ts, NEW b, NEW h, Reading(c, ts, b, h), NEW k \in 0 .. Len(c), k < Len(c),
         c[k + 1] \in Predicates
  PROVE  /\ parse_predicate(ts, b[k] + 1) = Parsed(b[k + 1] + 1, <<NodeOf(c[k + 1])>>)
         /\ TokenAt(ts, b[k] + 1) # LParen
<1>1. c \in Seq(Pieces) /\ Len(ts) \in Nat /\ Laid(c, ts, b)
  BY DEF Reading
<1> DEFINE x == c[k + 1]
           i == b[k] + 1
<1>2. PieceAfter(c, k) = x
  BY DEF PieceAfter
<1>3. /\ \A j \in 1 .. Len(x) : TokenAt(ts, b[k] + j) = x[j] /\ ts[b[k] + j] = x[j]
      /\ x \in Pieces /\ b[k + 1] = b[k] + Len(x) /\ b[k] \in Nat
  BY <1>1, <1>2, AfterRead
<1>4. Len(x) \in Nat
  BY <1>3, PieceShape
<1>5. Stands(ts, i, x)
  <2>1. \A j \in 1 .. Len(x) : i + (j - 1) = b[k] + j
    BY <1>3, <1>4
  <2> HIDE DEF i, x
  <2> QED BY <1>3, <2>1 DEF Stands
<1>6. parse_predicate(ts, i) = Parsed(i + Len(x), <<NodeOf(x)>>)
  <2>1. i \in Nat
    BY <1>3
  <2> HIDE DEF i, x
  <2>2. x \in Predicates
    BY DEF x
  <2> QED BY <1>5, <2>1, <2>2, PredicateStands
<1>7. i + Len(x) = b[k + 1] + 1
  BY <1>3, <1>4
<1>8. TokenAt(ts, i) # LParen
  <2>1. <<LParen>> \in Words /\ <<LParen>>[1] = LParen /\ <<LParen>> \notin Predicates
    BY WordsAre
  <2> QED BY <2>1, WordAt
<1> QED BY <1>6, <1>7, <1>8

LEMMA NoPredicateAt ==
  ASSUME NEW c, NEW ts, NEW b, NEW h, Reading(c, ts, b, h), NEW k \in 0 .. Len(c),
         k < Len(c) => c[k + 1] \notin Predicates
  PROVE  ~ parse_predicate(ts, b[k] + 1).ok
<1> DEFINE i == b[k] + 1
           x == PieceAfter(c, k)
<1>0. Len(c) \in Nat
  BY DEF Reading
<1>1. /\ FirstTokenOf(x) /\ b[k] \in Nat /\ i \in Nat /\ TokenAt(ts, i) = x[1]
      /\ k < Len(c) => x = c[k + 1]
      /\ ~ (k < Len(c)) => x = <<End>>
      /\ k < Len(c) => c[k + 1] \in Pieces /\ b[k + 1] = b[k] + Len(c[k + 1])
  BY FollowingPiece
<1>2. x \notin Predicates
  <2>1. <<End>> \notin Predicates
    <3>1. \A y \in Predicates : Len(y) # 1
      BY ComparisonIs, RangeIs, LikeIs, TrueIs DEF Predicates
    <3>2. Len(<<End>>) = 1
      OBVIOUS
    <3> QED BY <3>1, <3>2
  <2> QED BY <1>1, <2>1
<1> HIDE DEF i, x
<1>3. CASE ~ IsA(ts, i, "ident")
  <2>1. parse_predicate(ts, i) = Failed(i)
    BY ONLY <1>3 DEF parse_predicate
  <2> QED BY <2>1 DEF Failed, i
<1>4. CASE IsA(ts, i, "ident")
  <2>1. x = <<<<"ident", "WERE">>>>
    BY <1>1, <1>2, <1>4 DEF IsA, FirstTokenOf
  <2>2. Len(x) = 1 /\ x[1] = <<"ident", "WERE">>
    BY <2>1
  <2>3. k < Len(c)
    <3>1. <<End>>[1][1] = "eof"
      BY DEF End
    <3>2. x[1][1] = "ident"
      BY <2>2
    <3> QED BY <1>1, <3>1, <3>2
  <2> DEFINE l == k + 1
             y == PieceAfter(c, l)
  <2>4. l \in 0 .. Len(c) /\ b[l] + 1 = i + 1
    <3>1. l \in 0 .. Len(c)
      BY <1>0, <2>3
    <3>2. b[l] = b[k] + Len(c[l]) /\ Len(c[l]) = 1
      BY <1>1, <2>2, <2>3
    <3>3. b[l] + 1 = (b[k] + 1) + 1
      BY <3>2
    <3> QED BY <3>1, <3>3 DEF i
  <2> HIDE DEF l
  <2>5. FirstTokenOf(y) /\ TokenAt(ts, b[l] + 1) = y[1]
    BY <2>4, FollowingPiece
  <2>6. TokenAt(ts, i + 1)[1] # "op" /\ TokenAt(ts, i + 1) # Kw("BETWEEN") /\ TokenAt(ts, i + 1) # Kw("LIKE")
    BY <2>4, <2>5 DEF FirstTokenOf
  <2>7. ~ IsA(ts, i + 1, "op")
    BY <2>6 DEF IsA
  <2>8. parse_predicate(ts, i) = Failed(i)
    BY ONLY <1>4, <2>6, <2>7 DEF parse_predicate
  <2> QED BY <2>8 DEF Failed, i
<1> QED BY <1>3, <1>4

LEMMA PiecesTakeTokens ==
  ASSUME NEW c, NEW ts, NEW b, NEW h, Reading(c, ts, b, h)
  PROVE  Len(c) \in Nat /\ Len(ts) \in Nat /\ Len(c) <= Len(ts)
<1>0. c \in Seq(Pieces) /\ Len(c) \in Nat /\ Len(ts) \in Nat /\ Laid(c, ts, b)
  BY DEF Reading
<1> DEFINE S == {k \in 0 .. Len(c) : k <= b[k]}
<1>1. 0 \in S
  BY <1>0 DEF Laid
<1>2. ASSUME NEW k \in 0 .. Len(c) - 1, k \in S PROVE k + 1 \in S
  <2>1. k \in 0 .. Len(c) /\ k < Len(c) /\ k + 1 \in 0 .. Len(c)
    BY <1>0
  <2>2. b[k] \in Nat /\ c[k + 1] \in Pieces /\ b[k + 1] = b[k] + Len(c[k + 1])
    BY <2>1, FollowingPiece
  <2>3. Len(c[k + 1]) \in Nat /\ Len(c[k + 1]) >= 1
    BY <2>2, PieceShape
  <2>4. k <= b[k]
    BY <1>2
  <2> DEFINE w == Len(c[k + 1])
             l == k + 1
  <2>5. l <= b[l]
    <3>1. b[l] = b[k] + w /\ w \in Nat /\ w >= 1 /\ l = k + 1
      BY <2>2, <2>3
    <3> HIDE DEF w, l
    <3> QED BY ONLY <2>2, <2>4, <3>1, k \in 0 .. Len(c) - 1
  <2> QED BY <2>1, <2>5
<1>3. 0 .. Len(c) \subseteq S
  <2> HIDE DEF S
  <2> QED BY <1>0, <1>1, <1>2, UpTo
<1>4. Len(c) <= b[Len(c)]
  BY <1>0, <1>3
<1> QED BY <1>0, <1>4 DEF Laid

-----------------------------------------------------------------------------
(* What means something is read to its end.  K are the keywords a function  *)
(* of the parser looks for behind what it has read.                         *)
Ready(K, c, ts, b, h, k, m, row) ==
  /\ SegMeans(c, k, m, row) # "none"
  /\ \A kx \in {"AND", "OR"} : kx \notin K => SepAt(c, h, k, m, kx) = {}
  /\ \A kx \in K : TokenAt(ts, b[m] + 1) # Kw(kx)

ReadToEnd(f, K, n, c, ts, b, h, row) ==
  \A m \in 0 .. Len(c) : \A k \in 0 .. m : \A s \in Nat :
    m - k <= n /\ Ready(K, c, ts, b, h, k, m, row)
      => f[b[k] + 1][s].ok /\ f[b[k] + 1][s].at = b[m] + 1

LEMMA SepWithin ==
  ASSUME NEW c, NEW h, NEW k \in Int, NEW i \in Int, NEW j \in Int, NEW m \in Int,
         k <= i, j <= m, h[i] = h[k], NEW kx
  PROVE  SepAt(c, h, i, j, kx) \subseteq SepAt(c, h, k, m, kx)
<1>1. i + 1 .. j \subseteq k + 1 .. m
  OBVIOUS
<1> QED BY <1>1 DEF SepAt

LEMMA TurnsStuck ==
  ASSUME NEW ts, Len(ts) \in Nat, NEW kw, NEW kind, NEW operand, NEW i, NEW s, NEW f,
         Turns(f, ts, kw, kind, operand, i, s), NEW n \in 0 .. Len(ts),
         ~ (f[n].ok /\ TokenAt(ts, f[n].at) = Kw(kw))
  PROVE  f[Len(ts)] = f[n]
<1> DEFINE m == Len(ts)
           S == {j \in 0 .. m : j >= n => f[j] = f[n]}
<1>1. 0 \in S
  BY DEF Turns
<1>2. ASSUME NEW j \in 0 .. m - 1, j \in S PROVE j + 1 \in S
  <2> DEFINE l == j + 1
  <2>1. l \in 1 .. m /\ l \in 0 .. m /\ l - 1 = j
    OBVIOUS
  <2> HIDE DEF l
  <2>2. f[l] = Turn(ts, kw, kind, operand, s, f[j])
    BY <2>1 DEF Turns
  <2>3. CASE j >= n
    <3>1. f[j] = f[n]
      BY <1>2, <2>3
    <3>2. f[l] = f[n]
      BY <2>2, <3>1 DEF Turn
    <3> QED BY <2>1, <3>2 DEF l
  <2>4. CASE ~ (j >= n)
    <3>1. l >= n => l = n
      BY <2>4 DEF l
    <3> QED BY <2>1, <3>1 DEF l
  <2> QED BY <2>3, <2>4
<1>3. 0 .. m \subseteq S
  <2> HIDE DEF S
  <2> QED BY <1>1, <1>2, UpTo
<1>4. m \in S /\ m >= n
  BY <1>3
<1> QED BY <1>4

(* A loop looks for a keyword, its operands for those of the levels below.  *)
Levels(kw, kind, K) ==
  \/ kw = "AND" /\ kind = "and" /\ K = {}
  \/ kw = "OR" /\ kind = "or" /\ K = {"AND"}

(* Behind j the loop has an operand, or another follows.                    *)
Goes(K, kw, n, c, ts, b, h, k, j, row) ==
  /\ j - k <= n /\ SegMeans(c, k, j, row) # "none"
  /\ \A kx \in {"AND", "OR"} : kx \notin K \cup {kw} => SepAt(c, h, k, j, kx) = {}
  /\ \A kx \in K : TokenAt(ts, b[j] + 1) # Kw(kx)

(* A turn ends behind j.                                                    *)
There(f, b, k, j) == \E t \in 0 .. j - k : f[t].ok /\ f[t].at = b[j] + 1

(* A segment that means something is reached in a turn of the loop.         *)
LEMMA SegmentReached ==
  ASSUME NEW c, NEW ts, NEW b, NEW h, Reading(c, ts, b, h), NEW row, NEW kw, NEW kind, NEW K,
         Levels(kw, kind, K), NEW operand \in Parsers(ts), NEW n \in Nat,
         ReadToEnd(operand, K, n, c, ts, b, h, row),
         NEW k \in 0 .. Len(c), NEW s \in Nat, NEW f, Turns(f, ts, kw, kind, operand, b[k] + 1, s),
         NEW m \in k .. Len(c), Goes(K, kw, n, c, ts, b, h, k, m, row),
         \A j \in k .. m - 1 : Goes(K, kw, n, c, ts, b, h, k, j, row) => There(f, b, k, j)
  PROVE  There(f, b, k, m)
<1>g. /\ m - k <= n /\ SegMeans(c, k, m, row) # "none"
      /\ \A kx \in {"AND", "OR"} : kx \notin K \cup {kw} => SepAt(c, h, k, m, kx) = {}
      /\ \A kx \in K : TokenAt(ts, b[m] + 1) # Kw(kx)
  BY DEF Goes
<1>0. /\ c \in Seq(Pieces) /\ Heights(c, h) /\ Len(c) \in Nat /\ Len(ts) \in Nat /\ Len(c) <= Len(ts)
      /\ k \in Nat /\ m \in Nat /\ m \in 0 .. Len(c) /\ k \in 0 .. m
  BY PiecesTakeTokens DEF Reading
<1>1. kw \in {"AND", "OR"} /\ kind \in {"and", "or"} /\ kw \notin K /\ K \subseteq {"AND", "OR"}
  BY DEF Levels
<1>2. CASE SepAt(c, h, k, m, kw) = {}
  <2>1. \A kx \in {"AND", "OR"} : kx \notin K => SepAt(c, h, k, m, kx) = {}
    BY <1>g, <1>2
  <2>2. Ready(K, c, ts, b, h, k, m, row)
    BY <1>g, <2>1 DEF Ready
  <2>3. operand[b[k] + 1][s].ok /\ operand[b[k] + 1][s].at = b[m] + 1
    BY <1>0, <1>g, <2>2 DEF ReadToEnd
  <2>4. f[0].ok /\ f[0].at = b[m] + 1
    BY <2>3 DEF Turns
  <2>5. 0 \in 0 .. m - k
    BY <1>0
  <2> QED BY <2>4, <2>5 DEF There
<1>3. CASE SepAt(c, h, k, m, kw) # {}
  <2>1. PICK i \in SepAt(c, h, k, m, kw) : \A j \in SepAt(c, h, k, m, kw) : j <= i
    <3>1. SepAt(c, h, k, m, kw) \in SUBSET (0 .. m)
      BY <1>0 DEF SepAt
    <3> QED BY <1>0, <1>3, <3>1, MaxIsGreatest
  <2>2. /\ i \in k + 1 .. m /\ c[i] = <<Kw(kw)>> /\ h[i] = h[k] /\ i \in Nat /\ i \in 0 .. m
        /\ i - 1 \in k .. m - 1 /\ i - 1 \in 0 .. Len(c) /\ i - 1 < Len(c) /\ (i - 1) + 1 = i
        /\ m - i <= n /\ (i - 1) - k <= n /\ (i - 1) - k \in Nat
    BY <1>0, <1>g, <2>1 DEF SepAt
  <2>3. kw = "AND" => SepAt(c, h, k, m, "OR") = {}
    BY <1>g DEF Levels
  <2> DEFINE j == i - 1
  <2>4. SegMeans(c, k, m, row) = Combined(kw, SegMeans(c, k, j, row), SegMeans(c, i, m, row))
    BY <1>0, <1>1, <2>1, <2>3, MeansSplit
  <2>5. SegMeans(c, k, j, row) # "none" /\ SegMeans(c, i, m, row) # "none"
    <3> HIDE DEF j
    <3> QED BY <1>g, <2>4, NoneCombined
  <2>a. j \in k .. m - 1 /\ j \in 0 .. Len(c) /\ j < Len(c) /\ j + 1 = i /\ j - k <= n /\ j - k \in Nat
    BY <2>2
  <2> HIDE DEF j
  <2>6. TokenAt(ts, b[j] + 1) = Kw(kw) /\ b[i] = b[j] + 1
    <3>2. c[j + 1] = <<Kw(kw)>>
      BY <2>2, <2>a
    <3>3. /\ TokenAt(ts, b[j] + 1) = Kw(kw) <=> j < Len(c) /\ c[j + 1] = <<Kw(kw)>>
          /\ j < Len(c) /\ c[j + 1] = <<Kw(kw)>> => b[j + 1] = b[j] + 1
      BY <1>1, <2>a, KeywordAt
    <3> QED BY <2>a, <3>2, <3>3
  <2>7. \A kx \in K : TokenAt(ts, b[j] + 1) # Kw(kx)
    <3>1. \A kx \in K : Kw(kx) # Kw(kw)
      BY <1>1, WordsAre
    <3> QED BY <2>6, <3>1
  <2>8. \A kx \in {"AND", "OR"} : kx \notin K \cup {kw} => SepAt(c, h, k, j, kx) = {}
    <3>1. \A kx : SepAt(c, h, k, j, kx) \subseteq SepAt(c, h, k, m, kx)
      <4>1. k \in Int /\ j \in Int /\ m \in Int /\ k <= k /\ j <= m
        BY <1>0, <2>a
      <4> QED BY <4>1, SepWithin
    <3> QED BY <1>g, <3>1
  <2>9. PICK t \in 0 .. j - k : f[t].ok /\ f[t].at = b[j] + 1
    <3>1. Goes(K, kw, n, c, ts, b, h, k, j, row)
      BY <2>5, <2>7, <2>8, <2>a DEF Goes
    <3>2. There(f, b, k, j)
      BY <2>a, <3>1
    <3> QED BY <3>2 DEF There
  <2>10. t \in 0 .. Len(ts) /\ t + 1 \in 1 .. Len(ts) /\ (t + 1) - 1 = t /\ t + 1 \in 0 .. m - k
    BY <1>0, <2>a, <2>9
  <2> DEFINE left == f[t]
             l == s + Len(left.nodes)
             right == operand[left.at + 1][l]
  <2>11. left \in Results(ts) /\ f[t + 1] = Turn(ts, kw, kind, operand, s, left)
    BY <2>10 DEF Turns
  <2>12. left.ok /\ left.at = b[j] + 1 /\ left.at = b[i]
    BY <2>6, <2>9
  <2>13. Turn(ts, kw, kind, operand, s, left) = Joined(kind, operand, s, left)
    BY <2>6, <2>12 DEF Turn
  <2>14. l \in Nat /\ right \in Results(ts) /\ Joined(kind, operand, s, left) \in Results(ts)
    <3> HIDE DEF left
    <3> QED BY <1>1, <2>11, JoinedIs
  <2>15. \A kx \in {"AND", "OR"} : kx \notin K => SepAt(c, h, i, m, kx) = {}
    <3>1. \A kx : SepAt(c, h, i, m, kx) \subseteq SepAt(c, h, k, m, kx)
      <4>1. k \in Int /\ i \in Int /\ m \in Int /\ k <= i /\ m <= m
        <5>1. k \in Nat /\ m \in Nat /\ i \in k + 1 .. m
          BY <1>0, <2>2
        <5> QED BY ONLY <5>1
      <4> QED BY <2>2, <4>1, SepWithin
    <3>2. SepAt(c, h, i, m, kw) = {}
      <4>1. \A x \in SepAt(c, h, i, m, kw) : x \in i + 1 .. m /\ x <= i
        BY <2>1, <3>1 DEF SepAt
      <4>2. \A x \in i + 1 .. m : ~ (x <= i)
        BY <1>0, <2>2
      <4> QED BY <4>1, <4>2
    <3> QED BY <1>g, <3>1, <3>2
  <2>16. Ready(K, c, ts, b, h, i, m, row)
    BY <1>g, <2>5, <2>15 DEF Ready
  <2>17. right.ok /\ right.at = b[m] + 1
    <3> HIDE DEF left, l
    <3>1. operand[b[i] + 1][l].ok /\ operand[b[i] + 1][l].at = b[m] + 1
      BY <1>0, <2>2, <2>14, <2>16 DEF ReadToEnd
    <3> QED BY <2>12, <3>1
  <2> DEFINE node == [kind |-> kind, left |-> l, right |-> l + Len(right.nodes)]
  <2>18. Joined(kind, operand, s, left) = Parsed(right.at, left.nodes \o right.nodes \o <<node>>)
    <3>1. l = s + Len(left.nodes) /\ right = operand[left.at + 1][l]
      OBVIOUS
    <3>2. node = [kind |-> kind, left |-> l, right |-> l + Len(right.nodes)]
      OBVIOUS
    <3> HIDE DEF left, l, right, node
    <3> QED BY ONLY <2>17, <3>1, <3>2 DEF Joined
  <2>19. f[t + 1].ok /\ f[t + 1].at = b[m] + 1
    <3> HIDE DEF left, right, node
    <3> QED BY <2>11, <2>13, <2>17, <2>18 DEF Parsed
  <2> QED BY <2>10, <2>19 DEF There
<1> QED BY <1>2, <1>3

LEMMA LoopComplete ==
  ASSUME NEW c, NEW ts, NEW b, NEW h, Reading(c, ts, b, h), NEW row, NEW kw, NEW kind, NEW K,
         Levels(kw, kind, K), NEW operand \in Parsers(ts), NEW n \in Nat,
         ReadToEnd(operand, K, n, c, ts, b, h, row)
  PROVE  ReadToEnd(Loop(ts, kw, kind, operand), K \cup {kw}, n, c, ts, b, h, row)
<1>0. Len(c) \in Nat /\ Len(ts) \in Nat /\ Len(c) <= Len(ts)
  BY PiecesTakeTokens
<1>1. kw \in {"AND", "OR"} /\ kind \in {"and", "or"} /\ kw \notin K
  BY DEF Levels
<1> SUFFICES ASSUME NEW m \in 0 .. Len(c), NEW k \in 0 .. m, NEW s \in Nat, m - k <= n,
                    Ready(K \cup {kw}, c, ts, b, h, k, m, row),
                    NEW F, F = Loop(ts, kw, kind, operand)[b[k] + 1][s]
             PROVE  F.ok /\ F.at = b[m] + 1
  BY DEF ReadToEnd
<1>2. b[k] + 1 \in Nat /\ k \in 0 .. Len(c) /\ k \in Nat
  <2>1. k \in 0 .. Len(c) /\ k \in Nat
    BY <1>0
  <2> QED BY <2>1, FollowingPiece
<1>3. LoopEnds(ts, kw, kind, operand, b[k] + 1, s)
  <2> DEFINE i == b[k] + 1
  <2> HIDE DEF i
  <2>1. LoopEnds(ts, kw, kind, operand, i, s)
    BY <1>0, <1>1, <1>2, LoopTurns DEF i
  <2> QED BY <2>1 DEF i
<1>4. PICK f : Turns(f, ts, kw, kind, operand, b[k] + 1, s) /\ F = f[Len(ts)]
  BY <1>3 DEF LoopEnds
<1> DEFINE G(j) == Goes(K, kw, n, c, ts, b, h, k, j, row)
           T(j) == There(f, b, k, j)
           S == {q \in 0 .. Len(c) : \A j \in k .. q : G(j) => T(j)}
<1>5. ASSUME NEW p \in k .. Len(c), \A j \in k .. p - 1 : G(j) => T(j), G(p) PROVE T(p)
  <2> DEFINE i == b[k] + 1
  <2>1. Turns(f, ts, kw, kind, operand, i, s)
    BY <1>4
  <2>2. Turns(f, ts, kw, kind, operand, b[k] + 1, s)
    BY <1>4
  <2> HIDE DEF i
  <2> QED BY <1>2, <1>5, <2>2, SegmentReached
<1> HIDE DEF G, T
<1>6. 0 \in S
  <2> SUFFICES ASSUME NEW j \in k .. 0, G(j) PROVE T(j)
    BY <1>0
  <2>1. j \in k .. Len(c) /\ \A jj \in k .. j - 1 : FALSE
    BY <1>0, <1>2
  <2> QED BY <1>5, <2>1
<1>7. ASSUME NEW q \in 0 .. Len(c) - 1, q \in S PROVE q + 1 \in S
  <2> DEFINE l == q + 1
  <2>1. l \in 0 .. Len(c) /\ l - 1 = q
    BY <1>0
  <2> HIDE DEF l
  <2>2. ASSUME NEW j \in k .. l, G(j) PROVE T(j)
    <3>1. CASE j \in k .. q
      BY <1>7, <2>2, <3>1
    <3>2. CASE j \notin k .. q
      <4>1. j = l /\ l \in k .. Len(c) /\ k .. l - 1 = k .. q
        BY <1>2, <2>1, <2>2, <3>2 DEF l
      <4>2. \A jj \in k .. l - 1 : G(jj) => T(jj)
        BY <1>7, <4>1
      <4> QED BY <1>5, <2>2, <4>1, <4>2
    <3> QED BY <3>1, <3>2
  <2>3. l \in S
    BY <2>1, <2>2
  <2> QED BY <2>3 DEF l
<1>8. 0 .. Len(c) \subseteq S
  <2> HIDE DEF S
  <2> QED BY <1>0, <1>6, <1>7, UpTo
<1>9. G(m)
  <2>1. \A kx \in K : kx \in K \cup {kw}
    OBVIOUS
  <2> QED BY <2>1 DEF Goes, G, Ready
<1>10. T(m)
  <2>1. m \in S /\ m \in k .. m
    BY <1>0, <1>2, <1>8
  <2> QED BY <1>9, <2>1
<1>11. PICK t \in 0 .. m - k : f[t].ok /\ f[t].at = b[m] + 1
  BY <1>10 DEF There, T
<1>12. t \in 0 .. Len(ts)
  BY <1>0, <1>2, <1>11
<1>13. TokenAt(ts, f[t].at) # Kw(kw)
  BY <1>11 DEF Ready
<1>14. f[Len(ts)] = f[t]
  <2> DEFINE i == b[k] + 1
  <2>1. Turns(f, ts, kw, kind, operand, i, s)
    BY <1>4
  <2> HIDE DEF i
  <2> QED BY <1>0, <1>12, <1>13, <2>1, TurnsStuck
<1> QED BY <1>4, <1>11, <1>14

LEMMA PieceSays ==
  ASSUME NEW x, NEW row, PieceMeans(x, row) # "none"
  PROVE  x \in Predicates
<1> SUFFICES ASSUME x \notin Predicates PROVE FALSE
  OBVIOUS
<1>1. x \notin Comparisons \cup Ranges \cup Likes /\ x \notin Trues
  BY DEF Predicates
<1>2. PieceMeans(x, row) = "none"
  BY ONLY <1>1 DEF PieceMeans
<1> QED BY <1>2

LEMMA PrimaryComplete ==
  ASSUME NEW c, NEW ts, NEW b, NEW h, Reading(c, ts, b, h), NEW row, NEW inside \in Parsers(ts), NEW n \in Nat,
         ReadToEnd(inside, {"AND", "OR"}, n, c, ts, b, h, row)
  PROVE  ReadToEnd(parse_bool_primary(ts, inside), {}, n + 1, c, ts, b, h, row)
<1>0. c \in Seq(Pieces) /\ Heights(c, h) /\ Len(c) \in Nat
  BY PiecesTakeTokens DEF Reading
<1> SUFFICES ASSUME NEW m \in 0 .. Len(c), NEW k \in 0 .. m, NEW s \in Nat, m - k <= n + 1,
                    Ready({}, c, ts, b, h, k, m, row),
                    NEW F, F = parse_bool_primary(ts, inside)[b[k] + 1][s]
             PROVE  F.ok /\ F.at = b[m] + 1
  BY DEF ReadToEnd
<1>1. /\ SegMeans(c, k, m, row) # "none"
      /\ SepAt(c, h, k, m, "AND") = {} /\ SepAt(c, h, k, m, "OR") = {}
  BY DEF Ready
<1>2. /\ Parens(c, k, m) => SegMeans(c, k, m, row) = SegMeans(c, k + 1, m - 1, row)
      /\ m - k = 1 => SegMeans(c, k, m, row) = PieceMeans(c[m], row)
      /\ ~ Parens(c, k, m) /\ m - k # 1 => SegMeans(c, k, m, row) = "none"
  BY <1>0, <1>1, MeansWhole
<1>3. k \in 0 .. Len(c) /\ k \in Nat /\ m \in Nat
  BY <1>0
<1>4. b[k] + 1 \in Nat
  BY <1>3, FollowingPiece
<1> DEFINE i == b[k] + 1
<1>5. CASE Parens(c, k, m)
  <2> DEFINE l == k + 1
             q == m - 1
  <2>1. /\ k < Len(c) /\ l \in 0 .. q /\ q \in 0 .. Len(c) /\ q < Len(c) /\ l \in 0 .. Len(c)
        /\ q + 1 = m /\ q - l <= n /\ c[k + 1] = <<LParen>> /\ c[q + 1] = <<RParen>>
    <3>1. m - k > 2 /\ c[k + 1] = <<LParen>> /\ c[m] = <<RParen>>
      BY <1>5 DEF Parens
    <3>2. m \in Nat /\ m <= Len(c) /\ Len(c) \in Nat /\ q + 1 = m
      BY <1>0, <1>3
    <3> QED BY <1>3, <3>1, <3>2
  <2> HIDE DEF q
  <2>2. TokenAt(ts, i) = LParen /\ b[l] = i
    <3>1. LParen \in {LParen, RParen}
      OBVIOUS
    <3> QED BY <1>3, <2>1, <3>1, ParenAt
  <2>3. TokenAt(ts, b[q] + 1) = RParen /\ b[m] = b[q] + 1
    <3>1. RParen \in {LParen, RParen}
      OBVIOUS
    <3>2. /\ TokenAt(ts, b[q] + 1) = RParen <=> q < Len(c) /\ c[q + 1] = <<RParen>>
          /\ q < Len(c) /\ c[q + 1] = <<RParen>> => b[q + 1] = b[q] + 1
      BY <2>1, <3>1, ParenAt
    <3> QED BY <2>1, <3>2
  <2>4. Ready({"AND", "OR"}, c, ts, b, h, l, q, row)
    <3>1. SegMeans(c, l, q, row) # "none"
      BY <1>1, <1>2, <1>5 DEF q
    <3>2. \A kx : Kw(kx) # RParen
      BY WordsAre
    <3> QED BY <2>3, <3>1, <3>2 DEF Ready
  <2> HIDE DEF l, i
  <2> DEFINE inner == inside[b[l] + 1][s]
             paren == [kind |-> "paren", child |-> s + Len(inner.nodes)]
  <2>5. inner.ok /\ inner.at = b[q] + 1
    <3> HIDE DEF inner
    <3>1. inside[b[l] + 1][s].ok /\ inside[b[l] + 1][s].at = b[q] + 1
      BY <2>1, <2>4 DEF ReadToEnd
    <3> QED BY <3>1 DEF inner
  <2>6. F = IF inner.ok /\ TokenAt(ts, inner.at) = RParen
            THEN Parsed(inner.at + 1, Append(inner.nodes, paren)) ELSE Failed(inner.at)
    <3>1. i \in Nat /\ F = parse_bool_primary(ts, inside)[i][s]
      BY <1>4 DEF i
    <3> QED BY <2>2, <3>1 DEF parse_bool_primary
  <2> HIDE DEF inner, paren
  <2>7. F = Parsed(inner.at + 1, Append(inner.nodes, paren))
    BY <2>3, <2>5, <2>6
  <2> QED BY <2>3, <2>5, <2>7 DEF Parsed
<1>6. CASE ~ Parens(c, k, m)
  <2>1. m - k = 1 /\ PieceMeans(c[m], row) # "none"
    BY <1>1, <1>2, <1>6
  <2>2. k < Len(c) /\ m = k + 1 /\ c[k + 1] \in Predicates
    BY <1>0, <1>3, <2>1, PieceSays
  <2>3. parse_predicate(ts, i) = Parsed(b[m] + 1, <<NodeOf(c[m])>>) /\ TokenAt(ts, i) # LParen
    BY <1>3, <2>2, PredicateAt
  <2>4. F = parse_predicate(ts, i)
    <3> HIDE DEF i
    <3>1. i \in Nat /\ F = parse_bool_primary(ts, inside)[i][s]
      BY <1>4 DEF i
    <3> QED BY <2>3, <3>1 DEF parse_bool_primary
  <2> QED BY <2>3, <2>4 DEF Parsed
<1> QED BY <1>5, <1>6

LEMMA DisjunctionComplete ==
  ASSUME NEW c, NEW ts, NEW b, NEW h, Reading(c, ts, b, h), NEW row, NEW inside \in Parsers(ts), NEW n \in Nat,
         ReadToEnd(inside, {"AND", "OR"}, n, c, ts, b, h, row)
  PROVE  ReadToEnd(Disjunction(ts, inside), {"AND", "OR"}, n + 1, c, ts, b, h, row)
<1> DEFINE p == parse_bool_primary(ts, inside)
           q == parse_bool_and(ts, inside)
           N == n + 1
<1>0. Len(ts) \in Nat /\ N \in Nat
  BY PiecesTakeTokens
<1>1. p \in Parsers(ts)
  <2>1. 0 \in Nat
    OBVIOUS
  <2> QED BY <2>1, PrimaryIs
<1>2. q \in Parsers(ts)
  BY <1>0, DisjunctionIs
<1>3. ReadToEnd(p, {}, N, c, ts, b, h, row)
  BY PrimaryComplete
<1> HIDE DEF N
<1>4. ReadToEnd(q, {"AND"}, N, c, ts, b, h, row)
  <2>1. Levels("AND", "and", {}) /\ {} \cup {"AND"} = {"AND"}
    BY DEF Levels
  <2> DEFINE K == {}
  <2> HIDE DEF p, K
  <2>2. ReadToEnd(Loop(ts, "AND", "and", p), K \cup {"AND"}, N, c, ts, b, h, row)
    BY <1>0, <1>1, <1>3, <2>1, LoopComplete DEF K
  <2>3. K \cup {"AND"} = {"AND"}
    BY DEF K
  <2> QED BY <2>2, <2>3 DEF parse_bool_and, p
<1>5. ReadToEnd(Disjunction(ts, inside), {"AND", "OR"}, N, c, ts, b, h, row)
  <2> DEFINE K == {"AND"}
  <2>1. Levels("OR", "or", K) /\ K \cup {"OR"} = {"AND", "OR"}
    BY DEF Levels
  <2> HIDE DEF q, K
  <2>2. ReadToEnd(Loop(ts, "OR", "or", q), K \cup {"OR"}, N, c, ts, b, h, row)
    BY <1>0, <1>2, <1>4, <2>1, LoopComplete DEF K
  <2> QED BY <2>1, <2>2 DEF Disjunction, q
<1> QED BY <1>5 DEF N

LEMMA OrComplete ==
  ASSUME NEW c, NEW ts, NEW b, NEW h, Reading(c, ts, b, h), NEW row
  PROVE  ReadToEnd(parse_bool_or(ts), {"AND", "OR"}, Len(c), c, ts, b, h, row)
<1>0. c \in Seq(Pieces) /\ Heights(c, h) /\ Len(c) \in Nat /\ Len(ts) \in Nat /\ Len(c) <= Len(ts)
  BY PiecesTakeTokens DEF Reading
<1>1. PICK g : Nested(g, ts) /\ parse_bool_or(ts) = g[Len(ts)]
  BY <1>0, OrNested
<1> DEFINE K == {"AND", "OR"}
           S == {n \in 0 .. Len(ts) : ReadToEnd(g[n], K, n, c, ts, b, h, row)}
<1>2. 0 \in S
  <2> SUFFICES ASSUME NEW m \in 0 .. Len(c), NEW k \in 0 .. m, m - k <= 0, Ready(K, c, ts, b, h, k, m, row)
               PROVE  FALSE
    BY <1>0 DEF ReadToEnd
  <2>1. m = k
    BY <1>0
  <2>2. \A kx : SepAt(c, h, k, m, kx) = {}
    <3>1. k + 1 .. m = {}
      BY <1>0, <2>1
    <3> QED BY <3>1 DEF SepAt
  <2>3. ~ Parens(c, k, m) /\ m - k # 1
    BY <1>0, <2>1 DEF Parens
  <2>4. SegMeans(c, k, m, row) = "none"
    BY <1>0, <2>2, <2>3, MeansWhole
  <2> QED BY <2>4 DEF Ready
<1>3. ASSUME NEW n \in 0 .. Len(ts) - 1, n \in S PROVE n + 1 \in S
  <2> DEFINE l == n + 1
             x == g[n]
  <2>1. l \in 1 .. Len(ts) /\ l - 1 = n /\ n \in 0 .. Len(ts) /\ l \in 0 .. Len(ts) /\ n \in Nat
    BY <1>0
  <2>2. x \in Parsers(ts) /\ ReadToEnd(x, K, n, c, ts, b, h, row)
    BY <1>1, <1>3, <2>1 DEF Nested
  <2> HIDE DEF l
  <2>3. g[l] = Disjunction(ts, x)
    BY <1>1, <2>1 DEF Nested
  <2> HIDE DEF x, K
  <2>4. ReadToEnd(Disjunction(ts, x), K, n + 1, c, ts, b, h, row)
    BY <2>1, <2>2, DisjunctionComplete DEF K
  <2>5. l \in S
    BY <2>1, <2>3, <2>4 DEF l
  <2> QED BY <2>5 DEF l
<1>4. 0 .. Len(ts) \subseteq S
  <2> HIDE DEF S
  <2> QED BY <1>0, <1>2, <1>3, UpTo
<1>5. ReadToEnd(g[Len(ts)], K, Len(ts), c, ts, b, h, row)
  <2>1. Len(ts) \in 0 .. Len(ts)
    BY <1>0
  <2> QED BY <1>4, <2>1
<1>6. \A m \in 0 .. Len(c) : \A k \in 0 .. m : m - k <= Len(ts)
  BY <1>0
<1> HIDE DEF K
<1>7. ReadToEnd(g[Len(ts)], K, Len(c), c, ts, b, h, row)
  BY <1>5, <1>6 DEF ReadToEnd
<1> QED BY <1>1, <1>7 DEF K

-----------------------------------------------------------------------------
(* The nodes, and what they say when ev[i] is what the i-th says.           *)
NodeFits(x, i) ==
  \/ \E p \in Predicates : x = NodeOf(p)
  \/ x.kind = "paren" /\ x.child \in 1 .. i - 1
  \/ x.kind \in {"and", "or"} /\ x.left \in 1 .. i - 1 /\ x.right \in 1 .. i - 1

NodeSays(x, ev, row) ==
  IF x.kind = "paren" THEN ev[x.child]
  ELSE IF x.kind = "and" THEN Combined("AND", ev[x.left], ev[x.right])
  ELSE IF x.kind = "or" THEN Combined("OR", ev[x.left], ev[x.right])
  ELSE Truth(W!LeafHolds(x, row))

Built(nodes, s) == \A j \in 1 .. Len(nodes) : NodeFits(nodes[j], s + j)

Values(nodes, s, ev, row) == \A j \in 1 .. Len(nodes) : ev[s + j] = NodeSays(nodes[j], ev, row)

LEMMA LeafSays ==
  ASSUME NEW x \in Predicates, NEW row \in Rows
  PROVE  /\ Truth(W!LeafHolds(NodeOf(x), row)) = PieceMeans(x, row)
         /\ ~ W!LeafFails(NodeOf(x), row)
         /\ NodeOf(x).kind \in W!Leaves
<1> DEFINE c == x[1][2]
           y == NodeOf(x)
<1>0. /\ \A q \in Columns : row[q] \in {Zero, One}
      /\ \A q \in Texts : row[q] \in {Name, Other}
  BY DEF Rows
<1>a. /\ One.kind = "int" /\ Zero.kind = "int" /\ Name.kind = "string" /\ Other.kind = "string"
      /\ One.n = 1 /\ Zero.n = 0 /\ Name.n = 1 /\ Other.n = 2
  BY DEF One, Zero, Name, Other
<1>b. W!KindRank(One) = 1 /\ W!KindRank(Zero) = 1 /\ W!KindRank(Name) = 2 /\ W!KindRank(Other) = 2
  BY <1>a DEF W!KindRank
<1>c. W!Leaves = {"cmp", "cmpcol", "between", "like"}
  BY DEF W!Leaves
<1>1. CASE x \in Comparisons
  <2>1. y.kind = "cmp" /\ y.col = c /\ y.op = "==" /\ y.lit = One /\ c \in Columns
    BY <1>1, ComparisonIs
  <2>2. row[c] \in {Zero, One} /\ Name \notin {Zero, One}
    BY <1>0, <1>a, <2>1
  <2>3. x \notin Trues /\ x \in Comparisons \cup Ranges \cup Likes
    BY <1>1, ClauseAssumption, <2>1, TrueIs
  <2>4. PieceMeans(x, row) = Truth(row[c] \in {One, Name})
    BY ONLY <2>3 DEF PieceMeans
  <2> HIDE DEF y, c
  <2>5. W!LeafHolds(y, row) = (row[c] = One)
    <3>1. W!LeafHolds(y, row) = W!CmpValues("==", row[c], One)
      BY ONLY <2>1 DEF W!LeafHolds
    <3>2. W!CmpValues("==", row[c], One) = (row[c] = One)
      BY ONLY TRUE DEF W!CmpValues
    <3> QED BY <3>1, <3>2
  <2>6. (row[c] \in {One, Name}) = (row[c] = One)
    BY <2>2
  <2>7. ~ W!LeafFails(y, row)
    BY ONLY <2>1 DEF W!LeafFails
  <2> QED BY <1>c, <2>1, <2>4, <2>5, <2>6, <2>7 DEF y, c
<1>2. CASE x \in Ranges
  <2>1. y.kind = "between" /\ y.col = c /\ y.lo = One /\ y.hi = One /\ c \in Columns
    BY <1>2, RangeIs
  <2>2. row[c] \in {Zero, One} /\ Name \notin {Zero, One}
    BY <1>0, <1>a, <2>1
  <2>3. x \notin Trues /\ x \in Comparisons \cup Ranges \cup Likes
    BY <1>2, ClauseAssumption, <2>1, TrueIs
  <2>4. PieceMeans(x, row) = Truth(row[c] \in {One, Name})
    BY ONLY <2>3 DEF PieceMeans
  <2> HIDE DEF y, c
  <2>5. W!LeafHolds(y, row) = (~ W!Less(row[c], One) /\ ~ W!Less(One, row[c]))
    <3>1. W!LeafHolds(y, row) = (W!CmpValues(">=", row[c], One) /\ W!CmpValues("<=", row[c], One))
      BY ONLY <2>1 DEF W!LeafHolds
    <3>2. W!CmpValues(">=", row[c], One) = ~ W!Less(row[c], One)
      BY ONLY TRUE DEF W!CmpValues
    <3>3. W!CmpValues("<=", row[c], One) = ~ W!Less(One, row[c])
      BY ONLY TRUE DEF W!CmpValues
    <3> QED BY <3>1, <3>2, <3>3
  <2>6. W!Less(Zero, One) /\ ~ W!Less(One, One)
    BY ONLY <1>a, <1>b DEF W!Less
  <2>8. Zero # One
    BY <1>a
  <2>9. W!LeafHolds(y, row) = (row[c] \in {One, Name})
    BY <2>2, <2>5, <2>6, <2>8
  <2>7. ~ W!LeafFails(y, row)
    BY ONLY <2>1 DEF W!LeafFails
  <2> QED BY <1>c, <2>1, <2>4, <2>7, <2>9 DEF y, c
<1>3. CASE x \in Likes
  <2>1. y.kind = "like" /\ y.col = c /\ y.matches = {Name} /\ y.valid = TRUE /\ c \in Texts
    BY <1>3, LikeIs
  <2>2. row[c] \in {Name, Other} /\ One \notin {Name, Other}
    BY <1>0, <1>a, <2>1
  <2>3. x \notin Trues /\ x \in Comparisons \cup Ranges \cup Likes
    <3>1. x[2] = Kw("LIKE")
      BY <1>3, LikeIs
    <3> QED BY <1>3, <3>1, TrueIs DEF Kw
  <2>4. PieceMeans(x, row) = Truth(row[c] \in {One, Name})
    BY ONLY <2>3 DEF PieceMeans
  <2> HIDE DEF y, c
  <2>5. W!LeafHolds(y, row) = (row[c] \in {Name})
    BY ONLY <2>1 DEF W!LeafHolds
  <2>6. (row[c] \in {One, Name}) = (row[c] \in {Name})
    BY <2>2
  <2>7. ~ W!LeafFails(y, row)
    <3>1. W!KindRank(row[c]) = 2
      BY <1>b, <2>2
    <3> QED BY ONLY <2>1, <3>1 DEF W!LeafFails
  <2> QED BY <1>c, <2>1, <2>4, <2>5, <2>6, <2>7 DEF y, c
<1>4. CASE x \in Trues
  <2>1. y.kind = "cmpcol" /\ y.col = c /\ y.right = c /\ y.op = "==" /\ c \in Texts
    BY <1>4, TrueIs
  <2>3. x \in Trues /\ x \notin Comparisons \cup Ranges \cup Likes
    <3>1. x \notin Likes
      <4>1. x[2] = <<"op", "==">>
        BY <1>4, TrueIs
      <4> QED BY <4>1, LikeIs DEF Kw
    <3> QED BY <1>4, <2>1, <3>1, ClauseAssumption, ComparisonIs, RangeIs
  <2>4. PieceMeans(x, row) = "yes"
    BY ONLY <2>3 DEF PieceMeans
  <2> HIDE DEF y, c
  <2>5. W!LeafHolds(y, row) = TRUE
    <3>1. W!LeafHolds(y, row) = W!CmpValues("==", row[c], row[c])
      BY ONLY <2>1 DEF W!LeafHolds
    <3>2. W!CmpValues("==", row[c], row[c]) = (row[c] = row[c])
      BY ONLY TRUE DEF W!CmpValues
    <3> QED BY <3>1, <3>2
  <2>7. ~ W!LeafFails(y, row)
    BY ONLY <2>1 DEF W!LeafFails
  <2> QED BY <1>c, <2>1, <2>4, <2>5, <2>7 DEF y, c, Truth
<1> QED BY <1>1, <1>2, <1>3, <1>4 DEF Predicates

LEMMA LeafNode ==
  ASSUME NEW x \in Predicates, NEW row \in Rows, NEW ev
  PROVE  NodeSays(NodeOf(x), ev, row) = PieceMeans(x, row)
<1> DEFINE y == NodeOf(x)
<1>1. Truth(W!LeafHolds(y, row)) = PieceMeans(x, row) /\ y.kind \in {"cmp", "cmpcol", "between", "like"}
  BY LeafSays DEF W!Leaves
<1> HIDE DEF y
<1>2. NodeSays(y, ev, row) = Truth(W!LeafHolds(y, row))
  BY ONLY <1>1 DEF NodeSays
<1> QED BY <1>1, <1>2 DEF y

(* Two groups of nodes, one behind the other; a node behind a group.        *)
LEMMA Grouped ==
  ASSUME NEW N, NEW x \in Seq(N), NEW y \in Seq(N), NEW s \in Nat
  PROVE  /\ x \o y \in Seq(N) /\ Len(x \o y) = Len(x) + Len(y) /\ Len(x) \in Nat /\ Len(y) \in Nat
         /\ Built(x, s) /\ Built(y, s + Len(x)) => Built(x \o y, s)
         /\ \A ev, row : Values(x \o y, s, ev, row) => Values(x, s, ev, row) /\ Values(y, s + Len(x), ev, row)
<1> DEFINE z == x \o y
           m == Len(x)
           n == Len(y)
<1>1. /\ z \in Seq(N) /\ Len(z) = m + n /\ m \in Nat /\ n \in Nat
      /\ \A i \in 1 .. m + n : z[i] = IF i <= m THEN x[i] ELSE y[i - m]
  BY ConcatProperties, LenProperties
<1> HIDE DEF z, m, n
<1>2. \A j \in 1 .. m : z[j] = x[j] /\ j \in 1 .. m + n
  BY <1>1
<1>3. \A j \in 1 .. n : z[m + j] = y[j] /\ m + j \in 1 .. m + n /\ s + (m + j) = (s + m) + j
  <2>1. \A j \in 1 .. n : m + j \in 1 .. m + n /\ ~ (m + j <= m) /\ (m + j) - m = j /\ s + (m + j) = (s + m) + j
    BY <1>1
  <2> QED BY <1>1, <2>1
<1>4. \A i \in 1 .. m + n : i \in 1 .. m \/ \E j \in 1 .. n : i = m + j
  <2> SUFFICES ASSUME NEW i \in 1 .. m + n, i \notin 1 .. m PROVE \E j \in 1 .. n : i = m + j
    OBVIOUS
  <2>1. i - m \in 1 .. n /\ i = m + (i - m)
    BY <1>1
  <2> QED BY <2>1
<1>5. ASSUME Built(x, s), Built(y, s + m) PROVE Built(z, s)
  <2>1. \A j \in 1 .. m : NodeFits(z[j], s + j)
    BY <1>2, <1>5 DEF Built, m
  <2>2. \A j \in 1 .. n : NodeFits(z[m + j], s + (m + j))
    <3>1. \A j \in 1 .. n : NodeFits(y[j], (s + m) + j)
      BY <1>5 DEF Built, n
    <3> QED BY <1>3, <3>1
  <2>3. \A i \in 1 .. m + n : NodeFits(z[i], s + i)
    BY <1>4, <2>1, <2>2
  <2> QED BY <1>1, <2>3 DEF Built
<1>6. ASSUME NEW ev, NEW row, Values(z, s, ev, row) PROVE Values(x, s, ev, row) /\ Values(y, s + m, ev, row)
  <2>1. \A i \in 1 .. m + n : ev[s + i] = NodeSays(z[i], ev, row)
    BY <1>1, <1>6 DEF Values
  <2>2. \A j \in 1 .. m : ev[s + j] = NodeSays(x[j], ev, row)
    BY <1>2, <2>1
  <2>3. \A j \in 1 .. n : ev[(s + m) + j] = NodeSays(y[j], ev, row)
    BY <1>3, <2>1
  <2> QED BY <2>2, <2>3 DEF Values, m, n
<1> QED BY <1>1, <1>5, <1>6 DEF z, m, n

LEMMA LastNode ==
  ASSUME NEW N, NEW x \in Seq(N), NEW y \in N, NEW s \in Nat
  PROVE  /\ x \o <<y>> \in Seq(N) /\ Len(x \o <<y>>) = Len(x) + 1 /\ Len(x) \in Nat
         /\ x \o <<y>> = Append(x, y)
         /\ Built(x, s) /\ NodeFits(y, s + Len(x) + 1) => Built(x \o <<y>>, s)
         /\ \A ev, row : Values(x \o <<y>>, s, ev, row) =>
              Values(x, s, ev, row) /\ ev[s + Len(x \o <<y>>)] = NodeSays(y, ev, row)
<1> DEFINE t == <<y>>
           z == x \o t
           m == Len(x)
<1>1. t \in Seq(N) /\ Len(t) = 1 /\ t[1] = y
  OBVIOUS
<1>2. m \in Nat /\ z = Append(x, y)
  OBVIOUS
<1>a. m \in Nat /\ (s + m) + 1 = s + m + 1 /\ s + (m + 1) = (s + m) + 1
  BY <1>2
<1> HIDE DEF t, z, m
<1>3. /\ z \in Seq(N) /\ Len(z) = m + 1
      /\ Built(x, s) /\ Built(t, s + m) => Built(z, s)
      /\ \A ev, row : Values(z, s, ev, row) => Values(x, s, ev, row) /\ Values(t, s + m, ev, row)
  <2>1. /\ x \o t \in Seq(N) /\ Len(x \o t) = Len(x) + Len(t)
        /\ Built(x, s) /\ Built(t, s + Len(x)) => Built(x \o t, s)
        /\ \A ev, row : Values(x \o t, s, ev, row) => Values(x, s, ev, row) /\ Values(t, s + Len(x), ev, row)
    BY <1>1, Grouped
  <2> QED BY <1>1, <2>1 DEF z, m
<1>4. NodeFits(y, s + m + 1) => Built(t, s + m)
  <2>1. \A j \in 1 .. 1 : j = 1
    OBVIOUS
  <2> QED BY <1>1, <1>a, <2>1 DEF Built
<1>5. \A ev, row : Values(t, s + m, ev, row) => ev[s + (m + 1)] = NodeSays(y, ev, row)
  <2>1. 1 \in 1 .. 1
    OBVIOUS
  <2> QED BY <1>1, <1>a, <2>1 DEF Values
<1> QED BY <1>2, <1>3, <1>4, <1>5 DEF z, t, m

-----------------------------------------------------------------------------
(* What is read means something.  No parenthesis is closed between k and m  *)
(* that was open behind k.                                                  *)
Level(h, k, m) == h[m] = h[k] /\ \A i \in k .. m : h[i] >= h[k]

NodesSay(nodes, s, c, k, m) ==
  \A row \in Rows : \A ev : Values(nodes, s, ev, row) => SegMeans(c, k, m, row) = ev[s + Len(nodes)]

(* What was read behind the k-th piece ends behind the m-th; K are the      *)
(* separators there may be in it, L those that cannot follow.               *)
Accepted(r, K, L, c, ts, b, h, k, m, s) ==
  /\ r.at = b[m] + 1 /\ Level(h, k, m) /\ Built(r.nodes, s) /\ Len(r.nodes) >= 1
  /\ \A kx \in {"AND", "OR"} : kx \notin K => SepAt(c, h, k, m, kx) = {}
  /\ \A kx \in L : TokenAt(ts, b[m] + 1) # Kw(kx)
  /\ NodesSay(r.nodes, s, c, k, m)

AcceptedSome(r, K, L, c, ts, b, h, k, s) ==
  \E m \in k + 1 .. Len(c) : Accepted(r, K, L, c, ts, b, h, k, m, s)

Sound(f, K, c, ts, b, h) ==
  \A k \in 0 .. Len(c) : \A s \in Nat :
    f[b[k] + 1][s].ok => AcceptedSome(f[b[k] + 1][s], K, K, c, ts, b, h, k, s)

LEMMA PredicateSound ==
  ASSUME NEW c, NEW ts, NEW b, NEW h, Reading(c, ts, b, h), NEW k \in 0 .. Len(c), NEW s \in Nat,
         parse_predicate(ts, b[k] + 1).ok
  PROVE  AcceptedSome(parse_predicate(ts, b[k] + 1), {}, {}, c, ts, b, h, k, s)
<1>0. c \in Seq(Pieces) /\ Heights(c, h) /\ Len(c) \in Nat
  BY PiecesTakeTokens DEF Reading
<1>1. k < Len(c) /\ c[k + 1] \in Predicates
  BY NoPredicateAt
<1> DEFINE m == k + 1
           x == c[m]
           r == parse_predicate(ts, b[k] + 1)
<1>2. m \in k + 1 .. Len(c) /\ m \in 0 .. Len(c) /\ m \in 1 .. Len(c) /\ m - 1 = k /\ m - k = 1 /\ k \in 0 .. m /\ k \in Nat
  BY <1>0, <1>1
<1>3. r = Parsed(b[m] + 1, <<NodeOf(x)>>)
  BY <1>1, PredicateAt
<1>4. x \in Predicates
  BY <1>1
<1>5. x # <<LParen>> /\ x # <<RParen>> /\ x # <<Kw("AND")>> /\ x # <<Kw("OR")>>
  BY <1>4, WordsAre
<1> HIDE DEF m, x, r
<1>6. r.at = b[m] + 1 /\ r.nodes = <<NodeOf(x)>>
  BY <1>3 DEF Parsed
<1>7. Level(h, k, m)
  <2>1. h[m] = h[k] + Opens(x) /\ h[k] \in Int
    BY <1>0, <1>2 DEF Heights, x
  <2>2. Opens(x) = 0
    BY <1>5 DEF Opens
  <2>3. h[m] = h[k] /\ h[m] >= h[k] /\ h[k] >= h[k]
    BY <2>1, <2>2
  <2>4. \A i \in k .. m : i = k \/ i = m
    BY <1>2 DEF m
  <2> QED BY <2>3, <2>4 DEF Level
<1>8. \A kx \in {"AND", "OR"} : SepAt(c, h, k, m, kx) = {}
  <2>1. \A i \in k + 1 .. m : i = m
    BY <1>2 DEF m
  <2> QED BY <2>1, <1>5 DEF SepAt, x
<1>9. Built(r.nodes, s) /\ Len(r.nodes) >= 1
  <2>1. NodeFits(NodeOf(x), s + 1)
    BY <1>4 DEF NodeFits
  <2>2. Len(r.nodes) = 1 /\ r.nodes[1] = NodeOf(x)
    BY <1>6
  <2>3. \A j \in 1 .. 1 : j = 1
    OBVIOUS
  <2> QED BY <2>1, <2>2, <2>3 DEF Built
<1>10. NodesSay(r.nodes, s, c, k, m)
  <2> SUFFICES ASSUME NEW row \in Rows, NEW ev, Values(r.nodes, s, ev, row)
               PROVE  SegMeans(c, k, m, row) = ev[s + Len(r.nodes)]
    BY DEF NodesSay
  <2>1. Len(r.nodes) = 1 /\ r.nodes[1] = NodeOf(x) /\ 1 \in 1 .. 1
    BY <1>6
  <2>2. ev[s + 1] = NodeSays(NodeOf(x), ev, row)
    BY <2>1 DEF Values
  <2>3. ev[s + 1] = PieceMeans(x, row)
    BY <1>4, <2>2, LeafNode
  <2>4. SegMeans(c, k, m, row) = PieceMeans(x, row)
    <3>1. SepAt(c, h, k, m, "AND") = {} /\ SepAt(c, h, k, m, "OR") = {}
      BY <1>8
    <3> QED BY <1>0, <1>2, <3>1, MeansWhole DEF x
  <2> QED BY <2>1, <2>3, <2>4
<1>11. Accepted(r, {}, {}, c, ts, b, h, k, m, s)
  BY <1>6, <1>7, <1>8, <1>9, <1>10 DEF Accepted
<1> QED BY <1>2, <1>11 DEF AcceptedSome, r

LEMMA ParenSound ==
  ASSUME NEW c, NEW ts, NEW b, NEW h, Reading(c, ts, b, h), NEW k \in 0 .. Len(c), NEW s \in Nat,
         k < Len(c), c[k + 1] = <<LParen>>, NEW inner \in Results(ts), NEW K,
         NEW m \in k + 2 .. Len(c), Accepted(inner, K, K, c, ts, b, h, k + 1, m, s),
         TokenAt(ts, inner.at) = RParen, NEW paren, paren = [kind |-> "paren", child |-> s + Len(inner.nodes)]
  PROVE  AcceptedSome(Parsed(inner.at + 1, Append(inner.nodes, paren)), {}, {}, c, ts, b, h, k, s)
<1>0. c \in Seq(Pieces) /\ Heights(c, h) /\ Len(c) \in Nat
  BY PiecesTakeTokens DEF Reading
<1> DEFINE l == k + 1
           q == m + 1
           r == Parsed(inner.at + 1, Append(inner.nodes, paren))
<1>1. l \in 0 .. Len(c) /\ l \in 1 .. Len(c) /\ m \in 0 .. Len(c) /\ l - 1 = k /\ q - 1 = m /\ k \in Nat /\ m \in Nat
  BY <1>0
<1> HIDE DEF l
<1>2. inner.at = b[m] + 1 /\ h[m] = h[l] /\ \A i \in l .. m : h[i] >= h[l]
  BY DEF Accepted, Level, l
<1>3. m < Len(c) /\ c[q] = <<RParen>> /\ b[q] = b[m] + 1
  <2>1. RParen \in {LParen, RParen}
    OBVIOUS
  <2>2. /\ TokenAt(ts, b[m] + 1) = RParen <=> m < Len(c) /\ c[m + 1] = <<RParen>>
        /\ m < Len(c) /\ c[m + 1] = <<RParen>> => b[m + 1] = b[m] + 1
    BY <1>1, <2>1, ParenAt
  <2> QED BY <1>2, <2>2
<1>4. /\ q \in 0 .. Len(c) /\ q \in 1 .. Len(c) /\ q \in k + 1 .. Len(c) /\ k \in 0 .. q /\ q - k > 2
      /\ \A i \in k .. q : i = k \/ i = q \/ i \in l .. m
  <2>1. m \in l + 1 .. Len(c) /\ m < Len(c) /\ l = k + 1
    BY <1>0, <1>3 DEF l
  <2> QED BY ONLY <1>0, <1>1, <2>1 DEF q
<1> HIDE DEF q
<1>5. /\ h[k] \in Int /\ h[l] = h[k] + 1 /\ h[q] = h[m] - 1
  <2>1. h[l] = h[k] + Opens(c[l]) /\ h[q] = h[m] + Opens(c[q]) /\ h[k] \in Int /\ h[m] \in Int
    BY <1>0, <1>1, <1>4 DEF Heights, q
  <2>2. Opens(c[l]) = 1 /\ Opens(c[q]) = -1
    <3>1. c[l] = <<LParen>>
      BY DEF l
    <3> QED BY <1>3, <3>1, TokensDiffer DEF Opens
  <2> QED BY <2>1, <2>2
<1>6. h[q] = h[k] /\ \A i \in l .. m : h[i] > h[k]
  <2>1. \A i \in l .. m : h[i] \in Int
    <3>1. \A i \in l .. m : i \in 0 .. Len(c)
      BY ONLY <1>0, <1>1
    <3>2. \A i \in 0 .. Len(c) : h[i] \in Int
      BY <1>0 DEF Heights
    <3> QED BY ONLY <3>1, <3>2
  <2>2. h[q] = h[k] /\ \A i \in l .. m : h[i] >= h[k] + 1
    BY <1>2, <1>5
  <2> QED BY ONLY <1>5, <2>1, <2>2
<1>7. Level(h, k, q)
  <2>1. \A i \in k .. q : h[i] >= h[k]
    <3>1. h[k] >= h[k] /\ h[q] >= h[k]
      BY <1>5, <1>6
    <3>2. \A i \in l .. m : h[i] >= h[k]
      <4>1. \A i \in l .. m : h[i] \in Int
        <5>1. \A i \in l .. m : i \in 0 .. Len(c)
          BY <1>1
        <5> QED BY <1>0, <5>1 DEF Heights
      <4> QED BY <1>5, <1>6, <4>1
    <3> QED BY <1>4, <3>1, <3>2
  <2> QED BY <1>6, <2>1 DEF Level
<1>8. \A kx \in {"AND", "OR"} : SepAt(c, h, k, q, kx) = {}
  <2> SUFFICES ASSUME NEW kx \in {"AND", "OR"}, NEW i \in k + 1 .. q, c[i] = <<Kw(kx)>>, h[i] = h[k]
               PROVE  FALSE
    BY DEF SepAt
  <2>1. i = q \/ i \in l .. m
    BY <1>1, <1>4 DEF l
  <2>2. i # q
    BY <1>3, TokensDiffer
  <2>3. ~ (h[k] > h[k])
    BY <1>5
  <2> QED BY <1>6, <2>1, <2>2, <2>3
<1>9. r.at = b[q] + 1 /\ r.nodes = Append(inner.nodes, paren)
  <2>1. r.at = inner.at + 1 /\ r.nodes = Append(inner.nodes, paren)
    BY DEF Parsed
  <2> QED BY <1>2, <1>3, <2>1
<1> HIDE DEF r
<1>10. inner.nodes \in Seq(NodesOf(ts)) /\ Len(inner.nodes) \in Nat
  BY DEF Results
<1>11. Built(inner.nodes, s) /\ Len(inner.nodes) >= 1 /\ NodesSay(inner.nodes, s, c, l, m)
  BY DEF Accepted, l
<1>12. paren \in NodesOf(ts) /\ NodeFits(paren, s + Len(inner.nodes) + 1)
  <2>1. s + Len(inner.nodes) \in Nat /\ s + Len(inner.nodes) \in 1 .. (s + Len(inner.nodes) + 1) - 1
    <3> SUFFICES ASSUME NEW n, n = Len(inner.nodes)
                 PROVE  s + n \in Nat /\ s + n \in 1 .. (s + n + 1) - 1
      OBVIOUS
    <3>1. n \in Nat /\ n >= 1
      BY <1>10, <1>11
    <3>2. s \in Nat
      OBVIOUS
    <3> QED BY ONLY <3>1, <3>2
  <2>2. paren.kind = "paren" /\ paren.child = s + Len(inner.nodes)
    OBVIOUS
  <2> QED BY <2>1, <2>2 DEF NodesOf, NodeFits
<1>13. /\ Len(r.nodes) = Len(inner.nodes) + 1 /\ Built(r.nodes, s)
       /\ \A ev, row : Values(r.nodes, s, ev, row) =>
            Values(inner.nodes, s, ev, row) /\ ev[s + Len(r.nodes)] = NodeSays(paren, ev, row)
  <2> DEFINE x == inner.nodes
             N == NodesOf(ts)
  <2>1. x \in Seq(N) /\ paren \in N /\ Built(x, s) /\ NodeFits(paren, s + Len(x) + 1)
    BY <1>10, <1>11, <1>12
  <2>2. r.nodes = Append(x, paren)
    BY <1>9
  <2> HIDE DEF x, N
  <2>3. r.nodes = x \o <<paren>>
    <3>1. x \o <<paren>> = Append(x, paren)
      BY <2>1, LastNode
    <3> QED BY <2>2, <3>1
  <2>4. /\ Len(x \o <<paren>>) = Len(x) + 1 /\ Built(x \o <<paren>>, s)
        /\ \A ev, row : Values(x \o <<paren>>, s, ev, row) =>
             Values(x, s, ev, row) /\ ev[s + Len(x \o <<paren>>)] = NodeSays(paren, ev, row)
    BY <2>1, LastNode
  <2> QED BY <2>3, <2>4 DEF x
<1>14. NodesSay(r.nodes, s, c, k, q)
  <2> SUFFICES ASSUME NEW row \in Rows, NEW ev, Values(r.nodes, s, ev, row)
               PROVE  SegMeans(c, k, q, row) = ev[s + Len(r.nodes)]
    BY DEF NodesSay
  <2>1. ev[s + Len(r.nodes)] = NodeSays(paren, ev, row) /\ SegMeans(c, l, m, row) = ev[s + Len(inner.nodes)]
    BY <1>11, <1>13 DEF NodesSay
  <2>2. NodeSays(paren, ev, row) = ev[s + Len(inner.nodes)]
    <3>1. paren.kind = "paren" /\ paren.child = s + Len(inner.nodes)
      OBVIOUS
    <3> QED BY <3>1 DEF NodeSays
  <2>3. SegMeans(c, k, q, row) = SegMeans(c, l, m, row)
    <3>1. Parens(c, k, q)
      BY <1>3, <1>4 DEF Parens
    <3>2. SepAt(c, h, k, q, "AND") = {} /\ SepAt(c, h, k, q, "OR") = {}
      BY <1>8
    <3>3. SegMeans(c, k, q, row) = SegMeans(c, k + 1, q - 1, row)
      BY <1>0, <1>4, <3>1, <3>2, MeansWhole
    <3> QED BY <1>1, <3>3 DEF l, q
  <2> QED BY <2>1, <2>2, <2>3
<1>15. Len(r.nodes) >= 1
  BY <1>10, <1>13
<1>16. Accepted(r, {}, {}, c, ts, b, h, k, q, s)
  BY <1>7, <1>8, <1>9, <1>13, <1>14, <1>15 DEF Accepted
<1> QED BY <1>4, <1>16 DEF AcceptedSome, r

LEMMA PrimarySound ==
  ASSUME NEW c, NEW ts, NEW b, NEW h, Reading(c, ts, b, h), NEW inside \in Parsers(ts), NEW K,
         Sound(inside, K, c, ts, b, h)
  PROVE  Sound(parse_bool_primary(ts, inside), {}, c, ts, b, h)
<1>0. Len(c) \in Nat
  BY PiecesTakeTokens
<1> SUFFICES ASSUME NEW k \in 0 .. Len(c), NEW s \in Nat, NEW F,
                    F = parse_bool_primary(ts, inside)[b[k] + 1][s], F.ok
             PROVE  AcceptedSome(F, {}, {}, c, ts, b, h, k, s)
  BY DEF Sound
<1>1. b[k] + 1 \in Nat
  BY FollowingPiece
<1> DEFINE i == b[k] + 1
<1>a. i \in Nat /\ F = parse_bool_primary(ts, inside)[i][s]
  BY <1>1
<1>2. CASE TokenAt(ts, i) # LParen
  <2>1. F = parse_predicate(ts, i)
    <3> HIDE DEF i
    <3> QED BY <1>a, <1>2 DEF parse_bool_primary
  <2>2. parse_predicate(ts, b[k] + 1).ok
    BY <2>1
  <2> QED BY <2>1, <2>2, PredicateSound
<1>3. CASE TokenAt(ts, i) = LParen
  <2> DEFINE l == k + 1
             inner == inside[i + 1][s]
             paren == [kind |-> "paren", child |-> s + Len(inner.nodes)]
  <2>1. k < Len(c) /\ c[k + 1] = <<LParen>> /\ b[l] = i
    <3>1. PICK x \in {LParen, RParen} : x = LParen
      OBVIOUS
    <3>2. /\ TokenAt(ts, b[k] + 1) = x <=> k < Len(c) /\ c[k + 1] = <<x>>
          /\ k < Len(c) /\ c[k + 1] = <<x>> => b[k + 1] = b[k] + 1
      BY ParenAt
    <3> QED BY <1>3, <3>1, <3>2
  <2>2. l \in 0 .. Len(c) /\ l + 1 = k + 2
    BY <1>0, <2>1
  <2>3. F = IF inner.ok /\ TokenAt(ts, inner.at) = RParen
            THEN Parsed(inner.at + 1, Append(inner.nodes, paren)) ELSE Failed(inner.at)
    <3> HIDE DEF i
    <3> QED BY <1>a, <1>3 DEF parse_bool_primary
  <2>4. inner \in Results(ts) /\ inner = inside[b[l] + 1][s]
    <3>1. i + 1 \in Nat
      BY <1>1
    <3>2. inner \in Results(ts)
      <4> HIDE DEF i
      <4> QED BY <3>1 DEF Parsers
    <3> HIDE DEF i, l
    <3> QED BY <2>1, <3>2
  <2> HIDE DEF inner, paren
  <2>5. inner.ok /\ TokenAt(ts, inner.at) = RParen
    <3> SUFFICES ASSUME ~ (inner.ok /\ TokenAt(ts, inner.at) = RParen) PROVE FALSE
      OBVIOUS
    <3>1. F = Failed(inner.at)
      BY <2>3
    <3> QED BY <3>1 DEF Failed
  <2>6. F = Parsed(inner.at + 1, Append(inner.nodes, paren))
    BY <2>3, <2>5
  <2>7. AcceptedSome(inner, K, K, c, ts, b, h, l, s)
    <3> HIDE DEF l
    <3>1. inside[b[l] + 1][s].ok => AcceptedSome(inside[b[l] + 1][s], K, K, c, ts, b, h, l, s)
      BY <2>2 DEF Sound
    <3> QED BY <2>4, <2>5, <3>1
  <2>8. PICK m \in l + 1 .. Len(c) : Accepted(inner, K, K, c, ts, b, h, l, m, s)
    BY <2>7 DEF AcceptedSome
  <2>9. m \in k + 2 .. Len(c) /\ Accepted(inner, K, K, c, ts, b, h, k + 1, m, s)
    BY <2>2, <2>8
  <2>10. paren = [kind |-> "paren", child |-> s + Len(inner.nodes)]
    BY DEF paren
  <2>11. AcceptedSome(Parsed(inner.at + 1, Append(inner.nodes, paren)), {}, {}, c, ts, b, h, k, s)
    BY <2>1, <2>4, <2>5, <2>9, <2>10, ParenSound
  <2> QED BY <2>6, <2>11
<1> QED BY <1>2, <1>3

(* The outermost separators of two parts and the keyword between them.      *)
LEMMA LevelsMeet ==
  ASSUME NEW c, NEW h, NEW k \in Nat, NEW m \in Nat, NEW i, i = m + 1, NEW q \in Nat, k <= m, i <= q,
         Level(h, k, m), Level(h, i, q), h[i] = h[k]
  PROVE  /\ Level(h, k, q)
         /\ \A kx : SepAt(c, h, k, q, kx) \subseteq SepAt(c, h, k, m, kx) \cup {i} \cup SepAt(c, h, i, q, kx)
<1>1. \A j \in k .. q : j \in k .. m \/ j \in i .. q
  OBVIOUS
<1>2. \A j \in k + 1 .. q : j \in k + 1 .. m \/ j = i \/ j \in i + 1 .. q
  OBVIOUS
<1>3. Level(h, k, q)
  BY <1>1 DEF Level
<1>4. \A kx : SepAt(c, h, k, q, kx) \subseteq SepAt(c, h, k, m, kx) \cup {i} \cup SepAt(c, h, i, q, kx)
  BY <1>2 DEF SepAt
<1> QED BY <1>3, <1>4

LEMMA JoinSound ==
  ASSUME NEW c, NEW ts, NEW b, NEW h, Reading(c, ts, b, h), NEW kw, NEW kind, NEW K, Levels(kw, kind, K),
         NEW k \in 0 .. Len(c), NEW s \in Nat,
         NEW left \in Results(ts), NEW m \in k + 1 .. Len(c),
         Accepted(left, K \cup {kw}, K, c, ts, b, h, k, m, s),
         m < Len(c), c[m + 1] = <<Kw(kw)>>, NEW i, i = m + 1, NEW l, l = s + Len(left.nodes),
         NEW right \in Results(ts), NEW q \in i + 1 .. Len(c), Accepted(right, K, K, c, ts, b, h, i, q, l),
         NEW node, node = [kind |-> kind, left |-> l, right |-> l + Len(right.nodes)],
         NEW r, r = Parsed(right.at, left.nodes \o right.nodes \o <<node>>)
  PROVE  Accepted(r, K \cup {kw}, K, c, ts, b, h, k, q, s)
<1>0. c \in Seq(Pieces) /\ Heights(c, h) /\ Len(c) \in Nat
  BY PiecesTakeTokens DEF Reading
<1>1. kw \in {"AND", "OR"} /\ kind \in {"and", "or"} /\ kw \notin K
  BY DEF Levels
<1>2. /\ i \in 1 .. Len(c) /\ i - 1 = m /\ k \in Nat /\ m \in Nat /\ q \in Nat /\ k <= m /\ i <= q /\ q \in 0 .. Len(c)
      /\ k \in 0 .. q /\ i \in k + 1 .. q /\ m \in 0 .. Len(c)
  BY <1>0
<1>3. h[i] = h[k] /\ h[k] = h[m]
  <2>1. h[i] = h[m] + Opens(c[i]) /\ h[m] \in Int
    BY <1>0, <1>2 DEF Heights
  <2>2. Opens(c[i]) = 0
    BY TokensDiffer
  <2>3. h[m] = h[k]
    BY DEF Accepted, Level
  <2> QED BY <2>1, <2>2, <2>3
<1>4. Level(h, k, m) /\ Level(h, i, q)
  BY DEF Accepted
<1>5. /\ Level(h, k, q)
      /\ \A kx : SepAt(c, h, k, q, kx) \subseteq SepAt(c, h, k, m, kx) \cup {i} \cup SepAt(c, h, i, q, kx)
  BY ONLY <1>2, <1>3, <1>4, i = m + 1, LevelsMeet
<1>6. \A kx \in {"AND", "OR"} : kx \notin K \cup {kw} => SepAt(c, h, k, q, kx) = {}
  <2> SUFFICES ASSUME NEW kx \in {"AND", "OR"}, kx \notin K \cup {kw} PROVE SepAt(c, h, k, q, kx) = {}
    OBVIOUS
  <2>1. SepAt(c, h, k, m, kx) = {} /\ SepAt(c, h, i, q, kx) = {}
    BY DEF Accepted
  <2>2. i \notin SepAt(c, h, k, q, kx)
    <3>1. <<Kw(kx)>> # <<Kw(kw)>>
      BY TokensDiffer
    <3> QED BY <3>1 DEF SepAt
  <2> QED BY <1>5, <2>1, <2>2
<1>7. i \in SepAt(c, h, k, q, kw) /\ \A j \in SepAt(c, h, k, q, kw) : j <= i
  <2>1. i \in SepAt(c, h, k, q, kw)
    BY <1>2, <1>3 DEF SepAt
  <2>2. SepAt(c, h, i, q, kw) = {}
    BY <1>1 DEF Accepted
  <2>3. \A j \in SepAt(c, h, k, m, kw) : j <= i
    BY <1>2 DEF SepAt
  <2>4. i <= i
    BY <1>2
  <2> QED BY <1>5, <2>1, <2>2, <2>3, <2>4
<1>8. kw = "AND" => SepAt(c, h, k, q, "OR") = {}
  BY <1>6 DEF Levels
<1>9. \A row : SegMeans(c, k, q, row) = Combined(kw, SegMeans(c, k, m, row), SegMeans(c, i, q, row))
  <2> SUFFICES ASSUME NEW row
               PROVE  SegMeans(c, k, q, row) = Combined(kw, SegMeans(c, k, m, row), SegMeans(c, i, q, row))
    OBVIOUS
  <2>1. SegMeans(c, k, q, row) = Combined(kw, SegMeans(c, k, i - 1, row), SegMeans(c, i, q, row))
    BY ONLY <1>0, <1>1, <1>2, <1>7, <1>8, MeansSplit
  <2> QED BY <1>2, <2>1
<1> DEFINE x == left.nodes
           y == right.nodes
           z == x \o y
           N == NodesOf(ts)
<1>10. x \in Seq(N) /\ y \in Seq(N) /\ Len(x) \in Nat /\ Len(y) \in Nat
  BY DEF Results
<1>11. Built(x, s) /\ Built(y, l) /\ Len(x) >= 1 /\ Len(y) >= 1 /\ right.at = b[q] + 1
  BY DEF Accepted
<1>12. NodesSay(x, s, c, k, m) /\ NodesSay(y, l, c, i, q) /\ \A kx \in K : TokenAt(ts, b[q] + 1) # Kw(kx)
  BY DEF Accepted
<1>13. r.at = right.at /\ r.nodes = z \o <<node>>
  BY DEF Parsed
<1>14. l = s + Len(x)
  OBVIOUS
<1>15. node.kind = kind /\ node.left = l /\ node.right = l + Len(y)
  OBVIOUS
<1>16. l \in Nat /\ l + Len(y) \in Nat
  <2> SUFFICES ASSUME NEW u, u = Len(x), NEW v, v = Len(y) PROVE l \in Nat /\ l + v \in Nat
    OBVIOUS
  <2>1. u \in Nat /\ v \in Nat /\ l = s + u /\ s \in Nat
    BY <1>10, <1>14
  <2> QED BY ONLY <2>1
<1>17. node \in N
  <2> SUFFICES ASSUME NEW v, v = l + Len(y) PROVE node \in N
    OBVIOUS
  <2>1. node = [kind |-> kind, left |-> l, right |-> v] /\ v \in Nat
    BY <1>16
  <2> QED BY ONLY <1>1, <1>16, <2>1 DEF NodesOf
<1> HIDE DEF x, y, N
<1>18. /\ z \in Seq(N) /\ Len(z) = Len(x) + Len(y) /\ Built(z, s)
       /\ \A ev, row : Values(z, s, ev, row) => Values(x, s, ev, row) /\ Values(y, l, ev, row)
  <2>1. /\ z \in Seq(N) /\ Len(z) = Len(x) + Len(y)
        /\ Built(x, s) /\ Built(y, s + Len(x)) => Built(z, s)
        /\ \A ev, row : Values(z, s, ev, row) => Values(x, s, ev, row) /\ Values(y, s + Len(x), ev, row)
    BY ONLY <1>10, s \in Nat, Grouped
  <2> HIDE DEF z
  <2> QED BY <1>11, <1>14, <2>1
<1> HIDE DEF z
<1>19. NodeFits(node, s + Len(z) + 1)
  <2>1. l \in 1 .. (s + Len(z) + 1) - 1 /\ l + Len(y) \in 1 .. (s + Len(z) + 1) - 1
    <3> SUFFICES ASSUME NEW u, u = Len(x), NEW v, v = Len(y), NEW w, w = Len(z)
                 PROVE  l \in 1 .. (s + w + 1) - 1 /\ l + v \in 1 .. (s + w + 1) - 1
      OBVIOUS
    <3>1. u \in Nat /\ v \in Nat /\ w = u + v /\ u >= 1 /\ l = s + u /\ s \in Nat
      BY <1>10, <1>11, <1>14, <1>18
    <3> QED BY ONLY <3>1
  <2> QED BY ONLY <1>1, <1>15, <2>1 DEF NodeFits
<1>20. /\ Len(r.nodes) = Len(z) + 1 /\ Built(r.nodes, s)
       /\ \A ev, row : Values(r.nodes, s, ev, row) =>
            Values(z, s, ev, row) /\ ev[s + Len(r.nodes)] = NodeSays(node, ev, row)
  <2>1. /\ Len(z \o <<node>>) = Len(z) + 1
        /\ Built(z, s) /\ NodeFits(node, s + Len(z) + 1) => Built(z \o <<node>>, s)
        /\ \A ev, row : Values(z \o <<node>>, s, ev, row) =>
             Values(z, s, ev, row) /\ ev[s + Len(z \o <<node>>)] = NodeSays(node, ev, row)
    <3>1. z \in Seq(N) /\ node \in N /\ s \in Nat
      BY <1>17, <1>18
    <3> QED BY ONLY <3>1, LastNode
  <2> QED BY ONLY <1>13, <1>18, <1>19, <2>1
<1>21. Len(r.nodes) >= 1
  BY <1>10, <1>18, <1>20
<1>22. NodesSay(r.nodes, s, c, k, q)
  <2> SUFFICES ASSUME NEW row \in Rows, NEW ev, Values(r.nodes, s, ev, row)
               PROVE  SegMeans(c, k, q, row) = ev[s + Len(r.nodes)]
    BY DEF NodesSay
  <2>1. Values(x, s, ev, row) /\ Values(y, l, ev, row) /\ ev[s + Len(r.nodes)] = NodeSays(node, ev, row)
    BY <1>18, <1>20
  <2>2. SegMeans(c, k, m, row) = ev[l] /\ SegMeans(c, i, q, row) = ev[l + Len(y)]
    BY <1>12, <1>14, <2>1 DEF NodesSay
  <2>3. NodeSays(node, ev, row) = Combined(kw, ev[l], ev[l + Len(y)])
    <3>1. CASE kw = "AND" /\ kind = "and"
      BY ONLY <1>15, <3>1 DEF NodeSays
    <3>2. CASE kw = "OR" /\ kind = "or"
      BY ONLY <1>15, <3>2 DEF NodeSays
    <3> QED BY <3>1, <3>2 DEF Levels
  <2> QED BY <1>9, <2>1, <2>2, <2>3
<1> QED BY <1>5, <1>6, <1>11, <1>12, <1>13, <1>20, <1>21, <1>22 DEF Accepted

(* What a turn of a loop has read; a turn takes the keyword and a piece.    *)
TurnRead(r, n, kw, K, c, ts, b, h, k, s) ==
  \E m \in k + 1 .. Len(c) :
    Accepted(r, K \cup {kw}, K, c, ts, b, h, k, m, s) /\ (TokenAt(ts, r.at) = Kw(kw) => m > k + n)

LEMMA TurnSound ==
  ASSUME NEW c, NEW ts, NEW b, NEW h, Reading(c, ts, b, h), NEW kw, NEW kind, NEW K, Levels(kw, kind, K),
         NEW operand \in Parsers(ts), Sound(operand, K, c, ts, b, h),
         NEW k \in 0 .. Len(c), NEW s \in Nat, NEW n \in Nat,
         NEW left \in Results(ts), left.ok => TurnRead(left, n, kw, K, c, ts, b, h, k, s),
         NEW F, F = Turn(ts, kw, kind, operand, s, left), F.ok
  PROVE  TurnRead(F, n + 1, kw, K, c, ts, b, h, k, s)
<1>0. Len(c) \in Nat
  BY PiecesTakeTokens
<1>1. kw \in {"AND", "OR"} /\ kind \in {"and", "or"} /\ kw \notin K
  BY DEF Levels
<1>2. CASE ~ (left.ok /\ TokenAt(ts, left.at) = Kw(kw))
  <2>1. F = left
    BY <1>2 DEF Turn
  <2>2. left.ok /\ TokenAt(ts, left.at) # Kw(kw)
    BY <1>2, <2>1
  <2> QED BY <2>1, <2>2 DEF TurnRead
<1>3. CASE left.ok /\ TokenAt(ts, left.at) = Kw(kw)
  <2>1. F = Joined(kind, operand, s, left)
    BY <1>3 DEF Turn
  <2>2. PICK m \in k + 1 .. Len(c) : Accepted(left, K \cup {kw}, K, c, ts, b, h, k, m, s) /\ m > k + n
    BY <1>3 DEF TurnRead
  <2> DEFINE i == m + 1
             l == s + Len(left.nodes)
             right == operand[left.at + 1][l]
             node == [kind |-> kind, left |-> l, right |-> l + Len(right.nodes)]
  <2>3. m \in 0 .. Len(c) /\ m \in Nat /\ k \in Nat /\ left.at = b[m] + 1
    BY <1>0, <2>2 DEF Accepted
  <2>4. m < Len(c) /\ c[m + 1] = <<Kw(kw)>> /\ left.at = b[i]
    <3>1. /\ TokenAt(ts, b[m] + 1) = Kw(kw) <=> m < Len(c) /\ c[m + 1] = <<Kw(kw)>>
          /\ m < Len(c) /\ c[m + 1] = <<Kw(kw)>> => b[m + 1] = b[m] + 1
      BY <1>1, <2>3, KeywordAt
    <3> QED BY <1>3, <2>3, <3>1
  <2>5. l \in Nat /\ right \in Results(ts)
    <3> HIDE DEF l
    <3>1. l \in Nat
      BY <1>1, JoinedIs DEF l
    <3>2. left.at + 1 \in Nat
      BY DEF Results
    <3> QED BY <3>1, <3>2 DEF Parsers
  <2>6. F = IF right.ok THEN Parsed(right.at, left.nodes \o right.nodes \o <<node>>) ELSE Failed(right.at)
    BY <2>1 DEF Joined
  <2>7. i \in 0 .. Len(c) /\ i = m + 1
    BY <1>0, <2>3, <2>4
  <2> HIDE DEF i
  <2>8. l = s + Len(left.nodes) /\ right = operand[b[i] + 1][l]
    <3> HIDE DEF l
    <3>1. right = operand[b[i] + 1][l]
      BY <2>4
    <3> QED BY <3>1 DEF l
  <2>9. node = [kind |-> kind, left |-> l, right |-> l + Len(right.nodes)]
    OBVIOUS
  <2> HIDE DEF l, right, node
  <2>10. right.ok
    <3> SUFFICES ASSUME ~ right.ok PROVE FALSE
      OBVIOUS
    <3>1. F = Failed(right.at)
      BY <2>6
    <3> QED BY <3>1 DEF Failed
  <2>11. F = Parsed(right.at, left.nodes \o right.nodes \o <<node>>)
    BY <2>6, <2>10
  <2>12. AcceptedSome(right, K, K, c, ts, b, h, i, l)
    <3>1. operand[b[i] + 1][l].ok => AcceptedSome(operand[b[i] + 1][l], K, K, c, ts, b, h, i, l)
      BY <2>5, <2>7 DEF Sound
    <3> QED BY <2>8, <2>10, <3>1
  <2>13. PICK q \in i + 1 .. Len(c) : Accepted(right, K, K, c, ts, b, h, i, q, l)
    BY <2>12 DEF AcceptedSome
  <2>14. Accepted(F, K \cup {kw}, K, c, ts, b, h, k, q, s)
    <3>1. /\ Reading(c, ts, b, h) /\ Levels(kw, kind, K) /\ k \in 0 .. Len(c) /\ s \in Nat
          /\ left \in Results(ts) /\ right \in Results(ts)
      BY <2>5
    <3>2. l = s + Len(left.nodes)
      BY <2>8
    <3> QED BY ONLY <2>2, <2>4, <2>7, <2>9, <2>11, <2>13, <3>1, <3>2, JoinSound
  <2>15. q \in k + 1 .. Len(c) /\ q > k + (n + 1)
    BY <1>0, <2>2, <2>3, <2>7, <2>13
  <2> QED BY <2>14, <2>15 DEF TurnRead
<1> QED BY <1>2, <1>3

LEMMA LoopSound ==
  ASSUME NEW c, NEW ts, NEW b, NEW h, Reading(c, ts, b, h), NEW kw, NEW kind, NEW K, Levels(kw, kind, K),
         NEW operand \in Parsers(ts), Sound(operand, K, c, ts, b, h)
  PROVE  Sound(Loop(ts, kw, kind, operand), K \cup {kw}, c, ts, b, h)
<1>0. Len(c) \in Nat /\ Len(ts) \in Nat /\ Len(c) <= Len(ts)
  BY PiecesTakeTokens
<1>1. kw \in {"AND", "OR"} /\ kind \in {"and", "or"} /\ kw \notin K
  BY DEF Levels
<1> SUFFICES ASSUME NEW k \in 0 .. Len(c), NEW s \in Nat, NEW F,
                    F = Loop(ts, kw, kind, operand)[b[k] + 1][s], F.ok
             PROVE  AcceptedSome(F, K \cup {kw}, K \cup {kw}, c, ts, b, h, k, s)
  BY DEF Sound
<1>2. b[k] + 1 \in Nat /\ k \in Nat
  BY <1>0, FollowingPiece
<1>3. LoopEnds(ts, kw, kind, operand, b[k] + 1, s)
  <2> DEFINE i == b[k] + 1
  <2> HIDE DEF i
  <2>1. LoopEnds(ts, kw, kind, operand, i, s)
    BY <1>0, <1>1, <1>2, LoopTurns DEF i
  <2> QED BY <2>1 DEF i
<1>4. PICK f : Turns(f, ts, kw, kind, operand, b[k] + 1, s) /\ F = f[Len(ts)]
  BY <1>3 DEF LoopEnds
<1> DEFINE R(n) == f[n].ok => TurnRead(f[n], n, kw, K, c, ts, b, h, k, s)
           S == {n \in 0 .. Len(ts) : R(n)}
<1>5. 0 \in S
  <2>1. f[0] = operand[b[k] + 1][s]
    BY <1>4 DEF Turns
  <2>2. f[0].ok => AcceptedSome(f[0], K, K, c, ts, b, h, k, s)
    BY <2>1 DEF Sound
  <2>3. ASSUME f[0].ok PROVE TurnRead(f[0], 0, kw, K, c, ts, b, h, k, s)
    <3>1. PICK m \in k + 1 .. Len(c) : Accepted(f[0], K, K, c, ts, b, h, k, m, s)
      BY <2>2, <2>3 DEF AcceptedSome
    <3>2. Accepted(f[0], K \cup {kw}, K, c, ts, b, h, k, m, s)
      BY <3>1 DEF Accepted
    <3>3. m > k + 0
      BY <1>2
    <3> QED BY <3>2, <3>3 DEF TurnRead
  <2> QED BY <1>0, <2>3
<1>6. ASSUME NEW n \in 0 .. Len(ts) - 1, n \in S PROVE n + 1 \in S
  <2> DEFINE l == n + 1
             left == f[n]
  <2>1. l \in 0 .. Len(ts) /\ l \in 1 .. Len(ts) /\ l - 1 = n /\ n \in Nat /\ n \in 0 .. Len(ts)
    BY <1>0
  <2> HIDE DEF l
  <2>2. left \in Results(ts) /\ f[l] = Turn(ts, kw, kind, operand, s, left)
    BY <1>4, <2>1 DEF Turns
  <2>3. left.ok => TurnRead(left, n, kw, K, c, ts, b, h, k, s)
    BY <1>6
  <2> HIDE DEF left
  <2>4. ASSUME f[l].ok PROVE TurnRead(f[l], n + 1, kw, K, c, ts, b, h, k, s)
    BY <2>1, <2>2, <2>3, <2>4, TurnSound
  <2>5. l \in S
    BY <2>1, <2>4 DEF l
  <2> QED BY <2>5 DEF l
<1>7. 0 .. Len(ts) \subseteq S
  <2> HIDE DEF S
  <2> QED BY <1>0, <1>5, <1>6, UpTo
<1>8. TurnRead(F, Len(ts), kw, K, c, ts, b, h, k, s)
  <2>1. Len(ts) \in 0 .. Len(ts)
    BY <1>0
  <2>2. R(Len(ts))
    BY <1>7, <2>1
  <2> QED BY <1>4, <2>2
<1>9. PICK m \in k + 1 .. Len(c) : /\ Accepted(F, K \cup {kw}, K, c, ts, b, h, k, m, s)
                                   /\ TokenAt(ts, F.at) = Kw(kw) => m > k + Len(ts)
  BY <1>8 DEF TurnRead
<1>10. TokenAt(ts, b[m] + 1) # Kw(kw)
  <2>1. ~ (m > k + Len(ts))
    BY <1>0, <1>2
  <2> QED BY <1>9, <2>1 DEF Accepted
<1>11. Accepted(F, K \cup {kw}, K \cup {kw}, c, ts, b, h, k, m, s)
  BY <1>9, <1>10 DEF Accepted
<1> QED BY <1>11 DEF AcceptedSome

LEMMA DisjunctionSound ==
  ASSUME NEW c, NEW ts, NEW b, NEW h, Reading(c, ts, b, h), NEW inside \in Parsers(ts),
         Sound(inside, {"AND", "OR"}, c, ts, b, h)
  PROVE  Sound(Disjunction(ts, inside), {"AND", "OR"}, c, ts, b, h)
<1> DEFINE p == parse_bool_primary(ts, inside)
           q == parse_bool_and(ts, inside)
<1>0. Len(ts) \in Nat
  BY PiecesTakeTokens
<1>1. p \in Parsers(ts)
  <2>1. 0 \in Nat
    OBVIOUS
  <2> QED BY <2>1, PrimaryIs
<1>2. q \in Parsers(ts)
  BY <1>0, DisjunctionIs
<1>3. Sound(p, {}, c, ts, b, h)
  BY PrimarySound
<1>4. Sound(q, {"AND"}, c, ts, b, h)
  <2> DEFINE K == {}
  <2>1. Levels("AND", "and", K) /\ K \cup {"AND"} = {"AND"}
    BY DEF Levels
  <2> HIDE DEF p, K
  <2>2. Sound(Loop(ts, "AND", "and", p), K \cup {"AND"}, c, ts, b, h)
    BY <1>0, <1>1, <1>3, <2>1, LoopSound DEF K
  <2> QED BY <2>1, <2>2 DEF parse_bool_and, p
<1>5. Sound(Disjunction(ts, inside), {"AND", "OR"}, c, ts, b, h)
  <2> DEFINE K == {"AND"}
  <2>1. Levels("OR", "or", K) /\ K \cup {"OR"} = {"AND", "OR"}
    BY DEF Levels
  <2> HIDE DEF q, K
  <2>2. Sound(Loop(ts, "OR", "or", q), K \cup {"OR"}, c, ts, b, h)
    BY <1>0, <1>2, <1>4, <2>1, LoopSound DEF K
  <2> QED BY <2>1, <2>2 DEF Disjunction, q
<1> QED BY <1>5

LEMMA OrSound ==
  ASSUME NEW c, NEW ts, NEW b, NEW h, Reading(c, ts, b, h)
  PROVE  Sound(parse_bool_or(ts), {"AND", "OR"}, c, ts, b, h)
<1>0. Len(ts) \in Nat
  BY PiecesTakeTokens
<1>1. PICK g : Nested(g, ts) /\ parse_bool_or(ts) = g[Len(ts)]
  BY <1>0, OrNested
<1> DEFINE K == {"AND", "OR"}
           S == {n \in 0 .. Len(ts) : Sound(g[n], K, c, ts, b, h)}
<1>2. 0 \in S
  <2> SUFFICES ASSUME NEW k \in 0 .. Len(c), NEW s \in Nat, g[0][b[k] + 1][s].ok PROVE FALSE
    BY <1>0 DEF Sound
  <2>1. b[k] + 1 \in Nat
    BY FollowingPiece
  <2>2. g[0][b[k] + 1][s] = Failed(b[k] + 1)
    BY <1>1, <2>1 DEF Nested
  <2> QED BY <2>1, <2>2, FailedIs
<1>3. ASSUME NEW n \in 0 .. Len(ts) - 1, n \in S PROVE n + 1 \in S
  <2> DEFINE l == n + 1
             x == g[n]
  <2>1. l \in 1 .. Len(ts) /\ l - 1 = n /\ n \in 0 .. Len(ts) /\ l \in 0 .. Len(ts)
    BY <1>0
  <2>2. x \in Parsers(ts) /\ Sound(x, K, c, ts, b, h)
    BY <1>1, <1>3, <2>1 DEF Nested
  <2> HIDE DEF l
  <2>3. g[l] = Disjunction(ts, x)
    BY <1>1, <2>1 DEF Nested
  <2> HIDE DEF x, K
  <2>4. Sound(Disjunction(ts, x), K, c, ts, b, h)
    BY <2>2, DisjunctionSound DEF K
  <2>5. l \in S
    BY <2>1, <2>3, <2>4
  <2> QED BY <2>5 DEF l
<1>4. 0 .. Len(ts) \subseteq S
  <2> HIDE DEF S
  <2> QED BY <1>0, <1>2, <1>3, UpTo
<1>5. Len(ts) \in 0 .. Len(ts)
  BY <1>0
<1> QED BY <1>1, <1>4, <1>5

-----------------------------------------------------------------------------
(* The nodes are a clause, and the evaluator finds what they say.           *)
LEMMA LeafKinds ==
  ASSUME NEW x \in Predicates
  PROVE  NodeOf(x).kind \in {"cmp", "cmpcol", "between", "like"}
<1>1. CASE x \in Comparisons
  BY <1>1, ComparisonIs
<1>2. CASE x \in Ranges
  BY <1>2, RangeIs
<1>3. CASE x \in Likes
  BY <1>3, LikeIs
<1>4. CASE x \in Trues
  BY <1>4, TrueIs
<1> QED BY <1>1, <1>2, <1>3, <1>4 DEF Predicates

LEMMA FittingNode ==
  ASSUME NEW x, NEW i, NodeFits(x, i)
  PROVE  \/ x.kind \in {"cmp", "cmpcol", "between", "like"} /\ \E p \in Predicates : x = NodeOf(p)
         \/ x.kind = "paren" /\ x.child \in 1 .. i - 1
         \/ x.kind \in {"and", "or"} /\ x.left \in 1 .. i - 1 /\ x.right \in 1 .. i - 1
BY LeafKinds DEF NodeFits

LEMMA BuiltClause ==
  ASSUME NEW N, NEW w \in Seq(N), Len(w) >= 1, Built(w, 0)
  PROVE  /\ W!IsClause(w) /\ Len(w) \in Nat /\ w # <<>>
         /\ \A i \in 1 .. Len(w) : NodeFits(w[i], i)
<1>1. Len(w) \in Nat /\ DOMAIN w = 1 .. Len(w) /\ w # <<>>
  OBVIOUS
<1>2. \A i \in 1 .. Len(w) : NodeFits(w[i], i)
  <2>1. \A i \in 1 .. Len(w) : 0 + i = i
    OBVIOUS
  <2> QED BY <2>1 DEF Built
<1>3. ASSUME NEW i \in 1 .. Len(w)
      PROVE  /\ w[i].kind \in W!Leaves \cup {"paren", "and", "or"}
             /\ w[i].kind = "paren" => w[i].child \in 1 .. (i - 1)
             /\ w[i].kind \in {"and", "or"} => {w[i].left, w[i].right} \subseteq 1 .. (i - 1)
  <2> DEFINE x == w[i]
  <2>1. NodeFits(x, i)
    BY <1>2
  <2> HIDE DEF x
  <2>2. /\ x.kind \in {"cmp", "cmpcol", "between", "like"} \cup {"paren", "and", "or"}
        /\ x.kind = "paren" => x.child \in 1 .. i - 1
        /\ x.kind \in {"and", "or"} => x.left \in 1 .. i - 1 /\ x.right \in 1 .. i - 1
    BY <2>1, FittingNode
  <2> QED BY <2>2 DEF W!Leaves, x
<1>4. W!IsList(w) /\ Len(w) # 0
  BY <1>1 DEF W!IsList
<1> QED BY <1>1, <1>2, <1>3, <1>4 DEF W!IsClause

Evaluated(f, w, row) ==
  \A i \in 1 .. Len(w) : f[i] = [e \in BOOLEAN |-> W!EvalNode(w[i], f, row, e)]

LEMMA NodesEvaluated ==
  ASSUME NEW w, Len(w) \in Nat, w # <<>>, \A i \in 1 .. Len(w) : NodeFits(w[i], i), NEW row
  PROVE  \E f : Evaluated(f, w, row) /\ W!eval_where(w, row, FALSE) = f[Len(w)][FALSE]
<1> DEFINE Value(f, i) == [e \in BOOLEAN |-> W!EvalNode(w[i], f, row, e)]
           Fits(f, m) == f = [i \in 1 .. m |-> Value(f, i)]
           S == {m \in 0 .. Len(w) : \E f : Fits(f, m)}
<1>1. 0 \in S
  <2> DEFINE f == [i \in 1 .. 0 |-> {}]
  <2>1. f = [i \in 1 .. 0 |-> Value(f, i)]
    <3> HIDE DEF Value
    <3>1. \A i \in 1 .. 0 : f[i] = Value(f, i)
      OBVIOUS
    <3> QED BY <3>1
  <2>2. Fits(f, 0)
    BY <2>1
  <2> HIDE DEF f, Fits
  <2> QED BY <2>2
<1>2. ASSUME NEW m \in 0 .. Len(w) - 1, m \in S PROVE m + 1 \in S
  <2>1. PICK f : Fits(f, m)
    <3> HIDE DEF Fits
    <3> QED BY <1>2
  <2> DEFINE l == m + 1
             g == [i \in 1 .. l |-> IF i = l THEN Value(f, l) ELSE f[i]]
  <2>a. l \in 1 .. Len(w) /\ l \in 0 .. Len(w) /\ \A i \in 1 .. l : i \in 1 .. Len(w) /\ (i = l \/ i \in 1 .. m)
    OBVIOUS
  <2>2. ASSUME NEW i \in 1 .. l PROVE g[i] = Value(g, i)
    <3>1. \A k \in 1 .. i - 1 : g[k] = f[k]
      <4> HIDE DEF Value
      <4> QED OBVIOUS
    <3>2. Value(f, i) = Value(g, i)
      <4> HIDE DEF g
      <4>1. NodeFits(w[i], i)
        BY <2>a
      <4> SUFFICES ASSUME NEW e \in BOOLEAN PROVE W!EvalNode(w[i], f, row, e) = W!EvalNode(w[i], g, row, e)
        OBVIOUS
      <4>2. \/ w[i].kind \in {"cmp", "cmpcol", "between", "like"}
            \/ w[i].kind = "paren" /\ w[i].child \in 1 .. i - 1
            \/ w[i].kind \in {"and", "or"} /\ w[i].left \in 1 .. i - 1 /\ w[i].right \in 1 .. i - 1
        BY <4>1, FittingNode
      <4> QED BY ONLY <3>1, <4>2 DEF W!EvalNode, W!Leaves
    <3>3. g[i] = Value(f, i)
      <4> HIDE DEF Value
      <4> QED BY <2>1, <2>a
    <3> HIDE DEF Value, g
    <3> QED BY <3>2, <3>3
  <2>3. Fits(g, l)
    <3>1. g = [i \in 1 .. l |-> g[i]]
      <4> HIDE DEF Value
      <4> QED OBVIOUS
    <3> HIDE DEF g, Value, l
    <3> QED BY <2>2, <3>1
  <2> HIDE DEF g, Fits
  <2> QED BY <2>a, <2>3
<1>3. Len(w) \in S
  <2>1. 0 .. Len(w) \subseteq S
    <3> HIDE DEF S
    <3> QED BY <1>1, <1>2, UpTo
  <2> QED BY <2>1
<1> DEFINE f == CHOOSE f : Fits(f, Len(w))
<1>4. Fits(f, Len(w))
  <2>1. \E g : Fits(g, Len(w))
    <3> HIDE DEF Fits
    <3> QED BY <1>3
  <2> HIDE DEF Fits
  <2> QED BY <2>1
<1>5. W!eval_where(w, row, FALSE) = f[Len(w)][FALSE]
  BY DEF W!eval_where
<1> HIDE DEF f
<1>6. \A i \in 1 .. Len(w) : f[i] = Value(f, i)
  <2> HIDE DEF Value
  <2> QED BY <1>4
<1>7. Evaluated(f, w, row)
  BY <1>6 DEF Evaluated
<1> QED BY <1>5, <1>7

LEMMA Truths ==
  ASSUME NEW p \in BOOLEAN, NEW q \in BOOLEAN
  PROVE  /\ Combined("AND", Truth(p), Truth(q)) = Truth(p /\ q)
         /\ Combined("OR", Truth(p), Truth(q)) = Truth(p \/ q)
<1>1. CASE p /\ q
  BY <1>1 DEF Combined, Truth
<1>2. CASE p /\ ~ q
  BY <1>2 DEF Combined, Truth
<1>3. CASE ~ p /\ q
  BY <1>3 DEF Combined, Truth
<1>4. CASE ~ p /\ ~ q
  BY <1>4 DEF Combined, Truth
<1> QED BY <1>1, <1>2, <1>3, <1>4

NoError(o) == o.err = FALSE /\ o.hit \in BOOLEAN

LEMMA OutcomeIs ==
  ASSUME NEW hit, NEW err
  PROVE  W!Outcome(hit, err).hit = hit /\ W!Outcome(hit, err).err = err
BY DEF W!Outcome

LEMMA LeafBoolean ==
  ASSUME NEW p \in Predicates, NEW row
  PROVE  W!LeafHolds(NodeOf(p), row) \in BOOLEAN
<1> SUFFICES ASSUME NEW x, x = NodeOf(p) PROVE W!LeafHolds(x, row) \in BOOLEAN
  OBVIOUS
<1>0. \A v, u : W!CmpValues("==", v, u) \in BOOLEAN
  <2> SUFFICES ASSUME NEW v, NEW u PROVE W!CmpValues("==", v, u) \in BOOLEAN
    OBVIOUS
  <2>1. W!CmpValues("==", v, u) = (v = u)
    BY ONLY TRUE DEF W!CmpValues
  <2> QED BY ONLY <2>1
<1>1. CASE x.kind = "cmp" /\ x.op = "=="
  <2>1. W!LeafHolds(x, row) = W!CmpValues("==", row[x.col], x.lit)
    BY ONLY <1>1 DEF W!LeafHolds
  <2> QED BY ONLY <1>0, <2>1
<1>2. CASE x.kind = "cmpcol" /\ x.op = "=="
  <2>1. W!LeafHolds(x, row) = W!CmpValues("==", row[x.col], row[x.right])
    BY ONLY <1>2 DEF W!LeafHolds
  <2> QED BY ONLY <1>0, <2>1
<1>3. CASE x.kind = "between"
  <2>1. W!LeafHolds(x, row) = (W!CmpValues(">=", row[x.col], x.lo) /\ W!CmpValues("<=", row[x.col], x.hi))
    BY ONLY <1>3 DEF W!LeafHolds
  <2> QED BY ONLY <2>1
<1>4. CASE x.kind = "like"
  <2>1. W!LeafHolds(x, row) = (row[x.col] \in x.matches)
    BY ONLY <1>4 DEF W!LeafHolds
  <2> QED BY ONLY <2>1
<1>5. \/ x.kind = "cmp" /\ x.op = "=="
      \/ x.kind = "cmpcol" /\ x.op = "=="
      \/ x.kind \in {"between", "like"}
  BY ComparisonIs, RangeIs, LikeIs, TrueIs DEF Predicates
<1> QED BY <1>1, <1>2, <1>3, <1>4, <1>5

(* What the nodes before the i-th evaluate to.                              *)
Before(f, ev, i) == \A j \in 1 .. i - 1 : NoError(f[j][FALSE]) /\ ev[j] = Truth(f[j][FALSE].hit)

Yields(o, x, f, row) == o = W!EvalNode(x, f, row, FALSE)

(* One node: no error, and what it says by what the nodes before it say.    *)
LEMMA OneEvaluated ==
  ASSUME NEW x, NEW i \in Nat, NodeFits(x, i), NEW row \in Rows, NEW f,
         NEW ev, Before(f, ev, i),
         NEW o, Yields(o, x, f, row)
  PROVE  NoError(o) /\ Truth(o.hit) = NodeSays(x, ev, row)
<1>0. o = W!EvalNode(x, f, row, FALSE)
  BY DEF Yields
<1>1. CASE x.kind \in {"cmp", "cmpcol", "between", "like"} /\ \E p \in Predicates : x = NodeOf(p)
  <2>1. PICK p \in Predicates : x = NodeOf(p)
    BY <1>1
  <2>2. /\ Truth(W!LeafHolds(x, row)) = PieceMeans(p, row) /\ ~ W!LeafFails(x, row)
        /\ NodeSays(x, ev, row) = PieceMeans(p, row)
    BY <2>1, LeafSays, LeafNode
  <2>3. o = W!EvalLeaf(x, row, FALSE)
    BY ONLY <1>0, <1>1 DEF W!EvalNode, W!Leaves
  <2>4. o = W!Outcome(W!LeafHolds(x, row), FALSE)
    BY <2>2, <2>3 DEF W!EvalLeaf
  <2>5. o.hit = W!LeafHolds(x, row) /\ o.err = FALSE
    BY ONLY <2>4 DEF W!Outcome
  <2>6. W!LeafHolds(x, row) \in BOOLEAN
    BY <2>1, LeafBoolean
  <2> QED BY <2>2, <2>5, <2>6 DEF NoError
<1>2. CASE x.kind = "paren" /\ x.child \in 1 .. i - 1
  <2>1. o = f[x.child][FALSE]
    BY ONLY <1>0, <1>2 DEF W!EvalNode, W!Leaves
  <2>2. NodeSays(x, ev, row) = ev[x.child]
    BY <1>2 DEF NodeSays
  <2> QED BY <1>2, <2>1, <2>2 DEF Before
<1>3. CASE x.kind \in {"and", "or"} /\ x.left \in 1 .. i - 1 /\ x.right \in 1 .. i - 1
  <2> DEFINE l == f[x.left][FALSE]
             r == f[x.right][FALSE]
  <2>1. o = W!EvalBinary(x, l, r)
    BY ONLY <1>0, <1>3 DEF W!EvalNode, W!Leaves
  <2>2. NoError(l) /\ NoError(r) /\ ev[x.left] = Truth(l.hit) /\ ev[x.right] = Truth(r.hit)
    BY <1>3 DEF Before
  <2> HIDE DEF l, r
  <2>3. l.hit \in BOOLEAN /\ r.hit \in BOOLEAN /\ l.err = FALSE /\ r.err = FALSE
    BY <2>2 DEF NoError
  <2>4. CASE x.kind = "and"
    <3>1. o = W!Outcome(l.hit /\ r.hit, FALSE)
      BY ONLY <2>1, <2>3, <2>4 DEF W!EvalBinary
    <3>2. o.hit = (l.hit /\ r.hit) /\ o.err = FALSE
      BY ONLY <3>1, OutcomeIs
    <3>3. NodeSays(x, ev, row) = Combined("AND", Truth(l.hit), Truth(r.hit))
      BY <2>2, <2>4 DEF NodeSays
    <3> QED BY <2>3, <3>2, <3>3, Truths DEF NoError
  <2>5. CASE x.kind = "or"
    <3>1. o = W!Outcome(l.hit \/ r.hit, FALSE)
      BY ONLY <2>1, <2>3, <2>5 DEF W!EvalBinary
    <3>2. o.hit = (l.hit \/ r.hit) /\ o.err = FALSE
      BY ONLY <3>1, OutcomeIs
    <3>3. NodeSays(x, ev, row) = Combined("OR", Truth(l.hit), Truth(r.hit))
      BY <2>2, <2>5 DEF NodeSays
    <3> QED BY <2>3, <3>2, <3>3, Truths DEF NoError
  <2> QED BY <1>3, <2>4, <2>5
<1> QED BY <1>1, <1>2, <1>3, FittingNode

LEMMA ClauseEvaluated ==
  ASSUME NEW N, NEW w \in Seq(N), Len(w) >= 1, Built(w, 0), NEW row \in Rows
  PROVE  \E ev : /\ Values(w, 0, ev, row)
                 /\ ev[Len(w)] = Truth(W!eval_where(w, row, FALSE).hit)
<1>0. Len(w) \in Nat /\ w # <<>> /\ \A i \in 1 .. Len(w) : NodeFits(w[i], i)
  BY BuiltClause
<1>1. PICK f : Evaluated(f, w, row) /\ W!eval_where(w, row, FALSE) = f[Len(w)][FALSE]
  BY <1>0, NodesEvaluated
<1> DEFINE ev == [i \in 1 .. Len(w) |-> Truth(f[i][FALSE].hit)]
           Good(i) == NoError(f[i][FALSE]) /\ ev[i] = NodeSays(w[i], ev, row)
           S == {n \in 0 .. Len(w) : \A i \in 1 .. n : Good(i)}
<1>2. \A i \in 1 .. Len(w) : ev[i] = Truth(f[i][FALSE].hit)
  OBVIOUS
<1> HIDE DEF ev
<1>3. 0 \in S
  <2>1. \A i \in 1 .. 0 : FALSE
    OBVIOUS
  <2> HIDE DEF Good
  <2> QED BY <1>0, <2>1
<1>4. ASSUME NEW n \in 0 .. Len(w) - 1, n \in S PROVE n + 1 \in S
  <2> DEFINE i == n + 1
             o == f[i][FALSE]
             x == w[i]
  <2>1. i \in 1 .. Len(w) /\ i \in 0 .. Len(w) /\ i - 1 = n /\ i \in Nat /\ \A j \in 1 .. i : j = i \/ j \in 1 .. n
    BY <1>0
  <2> HIDE DEF i
  <2>2. \A j \in 1 .. i - 1 : NoError(f[j][FALSE]) /\ ev[j] = Truth(f[j][FALSE].hit)
    <3>1. \A j \in 1 .. n : j \in 1 .. Len(w)
      BY <1>0
    <3> QED BY <1>2, <1>4, <2>1, <3>1
  <2>3. o = W!EvalNode(x, f, row, FALSE)
    BY <1>1, <2>1 DEF Evaluated
  <2>4. NodeFits(x, i)
    BY <1>0, <2>1
  <2>6. ev[i] = Truth(o.hit)
    BY <1>2, <2>1
  <2> HIDE DEF o, x
  <2>5. NoError(o) /\ Truth(o.hit) = NodeSays(x, ev, row)
    <3>1. i \in Nat /\ row \in Rows
      BY <2>1
    <3>2. Before(f, ev, i)
      BY <2>2 DEF Before
    <3>3. Yields(o, x, f, row)
      BY <2>3 DEF Yields
    <3> QED BY ONLY <2>4, <3>1, <3>2, <3>3, OneEvaluated
  <2>7. Good(i)
    BY <2>5, <2>6 DEF o, x
  <2>8. i \in S
    <3> HIDE DEF Good
    <3> QED BY <1>4, <2>1, <2>7
  <2> QED BY <2>8 DEF i
<1>5. 0 .. Len(w) \subseteq S
  <2> HIDE DEF S
  <2> QED BY <1>0, <1>3, <1>4, UpTo
<1>6. \A i \in 1 .. Len(w) : Good(i)
  <2>1. Len(w) \in 0 .. Len(w)
    BY <1>0
  <2> HIDE DEF Good
  <2> QED BY <1>5, <2>1
<1>7. Values(w, 0, ev, row)
  <2>1. \A i \in 1 .. Len(w) : 0 + i = i
    OBVIOUS
  <2> QED BY <1>6, <2>1 DEF Values
<1>8. ev[Len(w)] = Truth(W!eval_where(w, row, FALSE).hit)
  <2>1. Len(w) \in 1 .. Len(w)
    BY <1>0
  <2> QED BY <1>1, <1>2, <2>1
<1> QED BY <1>7, <1>8

LEMMA WhereWord ==
  ASSUME NEW c, NEW ts, NEW b, NEW h, Reading(c, ts, b, h), TokenAt(ts, 1) = Kw("WHERE")
  PROVE  Len(c) >= 1 /\ b[1] = 1
<1>0. Len(c) \in Nat /\ 0 \in 0 .. Len(c)
  BY PiecesTakeTokens
<1>1. b[0] = 0
  BY DEF Reading, Laid
<1> DEFINE x == PieceAfter(c, 0)
<1>2. /\ FirstTokenOf(x) /\ TokenAt(ts, b[0] + 1) = x[1]
      /\ 0 < Len(c) => x = c[0 + 1]
      /\ ~ (0 < Len(c)) => x = <<End>>
      /\ 0 < Len(c) => b[0 + 1] = b[0] + Len(c[0 + 1])
  BY <1>0, FollowingPiece
<1> HIDE DEF x
<1>3. b[0] + 1 = 1 /\ 0 + 1 = 1
  BY <1>1
<1>4. x[1] = Kw("WHERE")
  BY <1>2, <1>3
<1>5. x = <<Kw("WHERE")>>
  BY <1>2, <1>4 DEF FirstTokenOf
<1>6. 0 < Len(c)
  <2>1. End # Kw("WHERE")
    BY DEF End, Kw
  <2>2. <<End>>[1] = End
    OBVIOUS
  <2> QED BY <1>2, <1>4, <2>1, <2>2
<1>7. Len(x) = 1
  BY <1>5
<1>8. b[1] = 1
  BY <1>1, <1>2, <1>3, <1>6, <1>7
<1> QED BY <1>0, <1>6, <1>8

LEMMA EndStops ==
  ASSUME NEW ts, Len(ts) \in Nat
  PROVE  \A kx : TokenAt(ts, Len(ts) + 1) # Kw(kx)
<1>1. TokenAt(ts, Len(ts) + 1) = End
  BY DEF TokenAt
<1>2. \A kx : End # Kw(kx)
  BY DEF End, Kw
<1> QED BY ONLY <1>1, <1>2

LEMMA ClauseRead ==
  ASSUME NEW c, NEW ts, NEW b, NEW h, Reading(c, ts, b, h), TokenAt(ts, 1) = Kw("WHERE"),
         NEW p, p = parse_bool_or(ts)[2][0]
  PROVE  /\ \A row : SegMeans(c, 1, Len(c), row) # "none" => p.ok /\ p.at = Len(ts) + 1
         /\ p.ok => AcceptedSome(p, {"AND", "OR"}, {"AND", "OR"}, c, ts, b, h, 1, 0)
         /\ p \in Results(ts)
<1>0. Len(c) \in Nat /\ Len(ts) \in Nat /\ Len(c) >= 1 /\ b[1] = 1 /\ 1 \in 0 .. Len(c) /\ Len(c) \in 0 .. Len(c)
  BY PiecesTakeTokens, WhereWord
<1> DEFINE i == b[1] + 1
           K == {"AND", "OR"}
           f == parse_bool_or(ts)
<1>1. p = f[i][0] /\ 0 \in Nat /\ i \in Nat
  BY <1>0
<1>2. f \in Parsers(ts)
  <2>1. PICK g : Nested(g, ts) /\ parse_bool_or(ts) = g[Len(ts)]
    BY <1>0, OrNested
  <2>2. Len(ts) \in 0 .. Len(ts)
    BY <1>0
  <2> QED BY <2>1, <2>2 DEF Nested
<1>3. p \in Results(ts)
  <2> HIDE DEF f, i
  <2> QED BY <1>1, <1>2 DEF Parsers
<1>4. Sound(f, K, c, ts, b, h)
  BY OrSound
<1>5. \A row : ReadToEnd(f, K, Len(c), c, ts, b, h, row)
  BY OrComplete
<1>6. b[Len(c)] = Len(ts)
  BY DEF Reading, Laid
<1>7. ASSUME NEW row, SegMeans(c, 1, Len(c), row) # "none"
      PROVE  p.ok /\ p.at = Len(ts) + 1
  <2>1. \A kx \in K : TokenAt(ts, b[Len(c)] + 1) # Kw(kx)
    BY <1>0, <1>6, EndStops
  <2>2. \A kx \in {"AND", "OR"} : kx \notin K => SepAt(c, h, 1, Len(c), kx) = {}
    OBVIOUS
  <2> HIDE DEF K, f
  <2>3. Ready(K, c, ts, b, h, 1, Len(c), row)
    BY <1>7, <2>1, <2>2 DEF Ready
  <2>4. Len(c) - 1 <= Len(c) /\ 1 \in 0 .. Len(c)
    BY <1>0
  <2>5. f[b[1] + 1][0].ok /\ f[b[1] + 1][0].at = b[Len(c)] + 1
    <3>1. \A k \in 0 .. Len(c) : \A s \in Nat :
            Len(c) - k <= Len(c) /\ Ready(K, c, ts, b, h, k, Len(c), row)
              => f[b[k] + 1][s].ok /\ f[b[k] + 1][s].at = b[Len(c)] + 1
      BY <1>0, <1>5 DEF ReadToEnd
    <3>2. 0 \in Nat
      OBVIOUS
    <3> QED BY ONLY <2>3, <2>4, <3>1, <3>2
  <2> QED BY <1>1, <1>6, <2>5
<1>8. p.ok => AcceptedSome(p, K, K, c, ts, b, h, 1, 0)
  <2> HIDE DEF K, f
  <2>1. f[b[1] + 1][0].ok => AcceptedSome(f[b[1] + 1][0], K, K, c, ts, b, h, 1, 0)
    BY <1>0, <1>1, <1>4 DEF Sound
  <2> QED BY <1>1, <2>1
<1> QED BY <1>3, <1>7, <1>8

LEMMA ClauseReads ==
  ASSUME clause \in Seq(Pieces)
  PROVE  ClauseAsWritten
<1>1. PICK b : /\ Laid(clause, FlattenSeq(clause), b) /\ FlattenSeq(clause) \in Seq(Symbols)
               /\ \A n \in 1 .. Len(clause) : Len(FlattenSeq(SubSeq(clause, 1, n))) = b[n]
  BY ClauseLaid
<1>2. PICK h : Heights(clause, h)
  BY HeightsExist
<1> SUFFICES ASSUME NEW ts, ts = ClauseTokens, NEW p, p = parse_where(ts)
             PROVE  ClauseAsWritten
  OBVIOUS
<1>3. ts = FlattenSeq(clause) /\ Len(ts) \in Nat /\ Reading(clause, ts, b, h)
  <2>1. ts = FlattenSeq(clause)
    BY DEF ClauseTokens
  <2>2. Len(ts) \in Nat
    BY <1>1, <2>1, LenProperties
  <2> QED BY <1>1, <1>2, <2>1, <2>2 DEF Reading
<1>4. CASE TokenAt(ts, 1) # Kw("WHERE")
  <2>1. p.ok /\ p.nodes = <<>>
    BY <1>4 DEF parse_where, Parsed
  <2> QED BY <1>4, <2>1 DEF ClauseAsWritten
<1>5. CASE TokenAt(ts, 1) = Kw("WHERE")
  <2>0. Len(clause) \in Nat /\ Len(clause) >= 1
    BY <1>3, <1>5, WhereWord
  <2>1. p = parse_bool_or(ts)[2][0]
    BY <1>5 DEF parse_where
  <2>2. /\ \A row : SegMeans(clause, 1, Len(clause), row) # "none" => p.ok /\ p.at = Len(ts) + 1
        /\ p.ok => AcceptedSome(p, {"AND", "OR"}, {"AND", "OR"}, clause, ts, b, h, 1, 0)
        /\ p \in Results(ts)
    BY ONLY <1>3, <1>5, <2>1, ClauseRead
  <2>3. \A row : Meaning(Tail(clause), row) # "none" => p.ok /\ p.at = Len(ts) + 1
    <3>1. Tail(clause) = Seg(clause, 1, Len(clause))
      <4>1. Tail(clause) = SubSeq(clause, 2, Len(clause))
        BY <2>0
      <4> QED BY <4>1 DEF Seg
    <3> QED BY <2>2, <3>1 DEF SegMeans
  <2>4. ASSUME p.ok
        PROVE  /\ W!IsClause(p.nodes) /\ TokenAt(ts, p.at) \notin {Kw("AND"), Kw("OR")}
               /\ \E n \in 2 .. Len(clause) :
                    /\ p.at = Len(FlattenSeq(SubSeq(clause, 1, n))) + 1
                    /\ \A row \in Rows :
                         Meaning(SubSeq(clause, 2, n), row) = Truth(W!eval_where(p.nodes, row, FALSE).hit)
    <3>1. PICK m \in 1 + 1 .. Len(clause) :
            Accepted(p, {"AND", "OR"}, {"AND", "OR"}, clause, ts, b, h, 1, m, 0)
      BY <2>2, <2>4 DEF AcceptedSome
    <3>2. /\ p.at = b[m] + 1 /\ Built(p.nodes, 0) /\ Len(p.nodes) >= 1
          /\ TokenAt(ts, b[m] + 1) # Kw("AND") /\ TokenAt(ts, b[m] + 1) # Kw("OR")
          /\ NodesSay(p.nodes, 0, clause, 1, m)
      BY <3>1 DEF Accepted
    <3>3. p.nodes \in Seq(NodesOf(ts)) /\ Len(p.nodes) \in Nat
      BY <2>2 DEF Results
    <3>4. W!IsClause(p.nodes)
      BY <3>2, <3>3, BuiltClause
    <3>5. m \in 2 .. Len(clause) /\ m \in 1 .. Len(clause)
      BY <2>0
    <3>6. p.at = Len(FlattenSeq(SubSeq(clause, 1, m))) + 1
      BY <1>1, <3>2, <3>5
    <3>7. ASSUME NEW row \in Rows
          PROVE  Meaning(SubSeq(clause, 2, m), row) = Truth(W!eval_where(p.nodes, row, FALSE).hit)
      <4> SUFFICES ASSUME NEW w, w = p.nodes
                   PROVE  Meaning(SubSeq(clause, 2, m), row) = Truth(W!eval_where(w, row, FALSE).hit)
        OBVIOUS
      <4>1. w \in Seq(NodesOf(ts)) /\ Len(w) >= 1 /\ Built(w, 0) /\ Len(w) \in Nat
        BY <3>2, <3>3
      <4>2. PICK ev : Values(w, 0, ev, row) /\ ev[Len(w)] = Truth(W!eval_where(w, row, FALSE).hit)
        BY <4>1, ClauseEvaluated
      <4>3. SegMeans(clause, 1, m, row) = ev[0 + Len(w)]
        BY <3>2, <4>2 DEF NodesSay
      <4>4. 0 + Len(w) = Len(w) /\ SubSeq(clause, 2, m) = Seg(clause, 1, m)
        BY <4>1 DEF Seg
      <4> QED BY <4>2, <4>3, <4>4 DEF SegMeans
    <3>8. TokenAt(ts, p.at) \notin {Kw("AND"), Kw("OR")}
      BY <3>2
    <3> QED BY <3>4, <3>5, <3>6, <3>7, <3>8
  <2> QED BY <1>5, <2>3, <2>4 DEF ClauseAsWritten
<1> QED BY <1>4, <1>5

(* Whatever a client writes, the parser reads it as it is written, and the  *)
(* evaluator selects the rows it says: for any columns, and any number of   *)
(* pieces and of parentheses inside each other.                             *)
THEOREM ClausesAreAsWritten == ClauseSpec => []ClauseAsWritten
<1> DEFINE Inv == clause \in Seq(Pieces)
<1>1. ClauseInit => Inv
  BY DEF ClauseInit
<1>2. Inv /\ [ClauseNext]_clause => Inv'
  <2> SUFFICES ASSUME Inv, [ClauseNext]_clause PROVE Inv'
    OBVIOUS
  <2>1. CASE ClauseNext
    <3>1. PICK piece \in Pieces : Write(piece)
      BY <2>1 DEF ClauseNext
    <3>2. clause' = Append(clause, piece)
      BY <3>1 DEF Write
    <3> HIDE DEF ClauseNext
    <3>3. Append(clause, piece) \in Seq(Pieces)
      BY AppendProperties
    <3> QED BY <3>2, <3>3
  <2>2. CASE UNCHANGED clause
    BY <2>2
  <2> QED BY <2>1, <2>2
<1>3. Inv => ClauseAsWritten
  BY ClauseReads
<1> QED BY <1>1, <1>2, <1>3, PTL DEF ClauseSpec
=============================================================================
