---------------------------- MODULE EntryRouter ----------------------------
(***************************************************************************)
(* The entry process (server/entrypoint_main.cpp) in front of several      *)
(* storage processes.  A client opens a connection per statement and sends *)
(* one line; a thread of the router picks the next storage in turn,        *)
(* forwards the line, and hands the one line of the answer back.  A        *)
(* storage may die at any moment and be started again by hand, with an     *)
(* empty catalog; the router neither retries nor remembers who was served  *)
(* where.  Statements come without a token and take effect as Catalog says. *)
(* REVERT needs the journals and is left to Engine.                        *)
(***************************************************************************)
EXTENDS Integers, Sequences

CONSTANTS
  Clients,
  Statements,    \* the statements clients send
  Script,        \* Script[c]: those of client c, one after the other
  Dbs,           \* names of databases
  Tables, Keys,  \* names of tables, values of their indexed column
  None,          \* no current database, an unqualified table
  MaxStorages,   \* bound: length of the list of storages
  MaxDeaths      \* bound: how often storages die

Cat == INSTANCE Catalog WITH NoDb <- None

OnDatabases == {"create_database", "drop_database", "use"}

IsStatement(s) ==
  \/ s.op \in OnDatabases /\ s.db \in Dbs
  \/ /\ s.op \in {"create_table", "drop_table", "insert", "update", "delete", "select"}
     /\ s.table \in Tables /\ s.db \in Dbs \cup {None}
     /\ s.op = "insert" => s.keys \in Seq(Keys)
     /\ s.op = "update" => s.keys[1] \in Keys /\ s.keys[2] \in Keys

ASSUME EntryRouterAssumption ==
  /\ \A s \in Statements : IsStatement(s)
  /\ \A c \in Clients : Script[c] \in Seq(Statements)
  /\ None \notin Dbs
  /\ MaxStorages \in Nat /\ MaxDeaths \in Nat

VARIABLES
  size,     \* nodes.size(), read from the file once
  rr,       \* rr, of which only the value modulo size matters
  up,       \* which storages run
  storage,  \* each storage's catalog: its databases and the current one
  deaths,
  conn,     \* per client: its connection, pc and storage picked
  step,     \* per client: the next statement of its script
  got,      \* per client: the answer to its last statement
  runs,     \* per client: how often its last statement was executed
  chosen    \* history, per client and storage: the database of the client's
            \* last USE accepted there; None once another client's USE, a DROP
            \* DATABASE or a death there undid it

storageVars == <<up, storage, deaths>>
clientVars == <<step, got>>
historyVars == <<runs, chosen>>
routerVars == <<size, rr, storageVars, conn, clientVars, historyVars>>

Nodes == 1..size

Hung == [pc |-> "idle", at |-> 0]

MovedTo(c, pc) == conn' = [conn EXCEPT ![c].pc = pc]

EntryRouterInit ==
  /\ size \in 0..MaxStorages
  /\ rr = 0
  /\ up = [s \in Nodes |-> TRUE]
  /\ storage = [s \in Nodes |-> Cat!EmptyCatalog]
  /\ deaths = 0
  /\ conn = [c \in Clients |-> Hung]
  /\ step = [c \in Clients |-> 1]
  /\ got = [c \in Clients |-> "none"]
  /\ runs = [c \in Clients |-> 0]
  /\ chosen = [c \in Clients |-> [s \in Nodes |-> None]]

(* The client connects and sends its next statement. *)
Open(c) ==
  /\ conn[c].pc = "idle"
  /\ step[c] <= Len(Script[c])
  /\ MovedTo(c, "read")
  /\ got' = [got EXCEPT ![c] = "none"]
  /\ runs' = [runs EXCEPT ![c] = 0]
  /\ UNCHANGED <<size, rr, storageVars, step, chosen>>

(* The answer reaches the client, the connection ends. *)
Answer(c, text) ==
  /\ got' = [got EXCEPT ![c] = text]
  /\ step' = [step EXCEPT ![c] = @ + 1]
  /\ conn' = [conn EXCEPT ![c] = Hung]

(* pick_storage on a non-empty list: the counter is read and advanced in   *)
(* one atomic step, by a thread of its own for each connection.            *)
(* Mutant: the index is not reduced to the length of the list. *)
Pick_NoModulo(c) ==
  /\ conn[c].pc = "read"
  /\ size > 0
  /\ conn' = [conn EXCEPT ![c] = [pc |-> "picked", at |-> rr + 1]]
  /\ rr' = (rr + 1) % (size + 1)
  /\ UNCHANGED <<size, storageVars, clientVars, historyVars>>

Pick(c) ==
  /\ conn[c].pc = "read"
  /\ size > 0
  /\ conn' = [conn EXCEPT ![c] = [pc |-> "picked", at |-> rr + 1]]
  /\ rr' = (rr + 1) % size
  /\ UNCHANGED <<size, storageVars, clientVars, historyVars>>

NoStorage(c) ==
  /\ conn[c].pc = "read"
  /\ size = 0
  /\ Answer(c, "no storage")
  /\ UNCHANGED <<size, rr, storageVars, historyVars>>

(* connect_to, and the line is on its way. *)
Forward(c) ==
  /\ conn[c].pc = "picked"
  /\ up[conn[c].at]
  /\ MovedTo(c, "sent")
  /\ UNCHANGED <<size, rr, storageVars, clientVars, historyVars>>

StorageDown(c) ==
  /\ conn[c].pc = "picked"
  /\ ~up[conn[c].at]
  /\ Answer(c, "storage down")
  /\ UNCHANGED <<size, rr, storageVars, historyVars>>

(* Whose USE stands at storage s, for every client, after c's statement was *)
(* executed there, accepted or refused.                                    *)
ChosenAfter(c, s, stmt, accepted) ==
  IF ~accepted THEN chosen ELSE
  [d \in Clients |->
     [chosen[d] EXCEPT ![s] =
        CASE stmt.op = "use" -> IF d = c \/ @ = stmt.db THEN stmt.db ELSE None
          [] stmt.op = "drop_database" -> IF @ = stmt.db THEN None ELSE @
          [] OTHER -> @]]

(* Requests of other clients the storage serves in between share its       *)
(* catalog and its current database.  A refused statement is answered like *)
(* any other.                                                              *)
(* Mutant: a refused USE leaves no database current. *)
Execute_ForgetsOnRefusal(c) ==
  LET s == conn[c].at
      stmt == Script[c][step[c]]
      done == Cat!exec_statement(storage[s], stmt)
  IN  /\ conn[c].pc = "sent"
      /\ MovedTo(c, "ran")
      /\ runs' = [runs EXCEPT ![c] = @ + 1]
      /\ storage' = [storage EXCEPT ![s] =
           IF stmt.op = "use" /\ ~done.ok THEN [done.cat EXCEPT !.current = None] ELSE done.cat]
      /\ chosen' = ChosenAfter(c, s, stmt, done.ok)
      /\ UNCHANGED <<size, rr, up, deaths, clientVars>>

Execute(c) ==
  LET s == conn[c].at
      stmt == Script[c][step[c]]
      done == Cat!exec_statement(storage[s], stmt)
  IN  /\ conn[c].pc = "sent"
      /\ MovedTo(c, "ran")
      /\ runs' = [runs EXCEPT ![c] = @ + 1]
      /\ storage' = [storage EXCEPT ![s] = done.cat]
      /\ chosen' = ChosenAfter(c, s, stmt, done.ok)
      /\ UNCHANGED <<size, rr, up, deaths, clientVars>>

(* The storage writes its answer; from here on it survives the storage.    *)
Reply(c) ==
  /\ conn[c].pc = "ran"
  /\ MovedTo(c, "answered")
  /\ UNCHANGED <<size, rr, storageVars, clientVars, historyVars>>

Relay(c) ==
  /\ conn[c].pc = "answered"
  /\ Answer(c, "result")
  /\ UNCHANGED <<size, rr, storageVars, historyVars>>

(* read_line of the storage's answer fails: its result is not looked at,   *)
(* and the client gets an empty line.                                      *)
(* Mutants: the router tries again, calls it a storage that was down, or   *)
(* waits for the storage to come back.                                     *)
RelayNothing_Retries(c) ==
  /\ conn[c].pc = "broken"
  /\ MovedTo(c, "read")
  /\ UNCHANGED <<size, rr, storageVars, clientVars, historyVars>>

RelayNothing_SaysDown(c) ==
  /\ conn[c].pc = "broken"
  /\ Answer(c, "storage down")
  /\ UNCHANGED <<size, rr, storageVars, historyVars>>

RelayNothing_Waits(c) ==
  /\ conn[c].pc = "broken"
  /\ up[conn[c].at]
  /\ Answer(c, "empty")
  /\ UNCHANGED <<size, rr, storageVars, historyVars>>

RelayNothing(c) ==
  /\ conn[c].pc = "broken"
  /\ Answer(c, "empty")
  /\ UNCHANGED <<size, rr, storageVars, historyVars>>

(* A storage dies with its memory and with the connections it has not      *)
(* answered yet.                                                           *)
Die(s) ==
  /\ up[s]
  /\ deaths < MaxDeaths
  /\ deaths' = deaths + 1
  /\ up' = [up EXCEPT ![s] = FALSE]
  /\ storage' = [storage EXCEPT ![s] = Cat!EmptyCatalog]
  /\ conn' = [c \in Clients |->
       IF conn[c].at = s /\ conn[c].pc \in {"sent", "ran"}
       THEN [conn[c] EXCEPT !.pc = "broken"] ELSE conn[c]]
  /\ chosen' = [c \in Clients |-> [chosen[c] EXCEPT ![s] = None]]
  /\ UNCHANGED <<size, rr, clientVars, runs>>

(* "restart manually": somebody does, or not.  The catalog starts empty, as *)
(* Die left it: nothing is read back.                                      *)
Start(s) ==
  /\ ~up[s]
  /\ up' = [up EXCEPT ![s] = TRUE]
  /\ UNCHANGED <<size, rr, storage, deaths, conn, clientVars, historyVars>>

RouterThread(c) ==
  Pick(c) \/ NoStorage(c) \/ Forward(c) \/ StorageDown(c) \/ Relay(c) \/ RelayNothing(c)

StorageThread(c) == Execute(c) \/ Reply(c)

EntryRouterNext ==
  \/ \E c \in Clients : Open(c) \/ RouterThread(c) \/ StorageThread(c)
  \/ \E s \in Nodes : Die(s) \/ Start(s)

(* Threads of the router and of a running storage get on; nobody has to    *)
(* send a statement, die or start a storage.                               *)
EntryRouterSpec ==
  /\ EntryRouterInit
  /\ [][EntryRouterNext]_routerVars
  /\ \A c \in Clients : WF_routerVars(RouterThread(c)) /\ WF_routerVars(StorageThread(c))

-----------------------------------------------------------------------------
(* Properties. *)

(* The types: a picked storage is always one of the list, however the       *)
(* threads interleave, and a current database exists.                       *)
RouterTypeOK ==
  /\ size \in 0..MaxStorages /\ rr \in 0..MaxStorages
  /\ up \in [Nodes -> BOOLEAN]
  /\ \A s \in Nodes : /\ Cat!Created(storage[s]) \subseteq Dbs
                     /\ storage[s].current \in Cat!Created(storage[s]) \cup {None}
  /\ deaths \in 0..MaxDeaths
  /\ \A c \in Clients :
       /\ conn[c].pc \in {"idle", "read", "picked", "sent", "ran", "answered", "broken"}
       /\ conn[c].pc \in {"idle", "read"} \/ conn[c].at \in Nodes
       /\ step[c] \in 1..Len(Script[c]) + 1
       /\ got[c] \in {"none", "result", "no storage", "storage down", "empty"}
       /\ runs[c] \in Nat
       /\ chosen[c] \in [Nodes -> Dbs \cup {None}]

(* No statement is executed twice, wherever the storage dies that it was    *)
(* forwarded to: an INSERT that was executed but not answered must not be   *)
(* sent to the next storage.                                                *)
AtMostOnce == \A c \in Clients : runs[c] <= 1

(* What the client may conclude from the router's line: an error of the     *)
(* router means that nothing was executed, a storage's line that the        *)
(* statement was executed once.  Only the empty line leaves it open.        *)
AnswerTellsTruth ==
  \A c \in Clients :
    /\ got[c] \in {"no storage", "storage down"} => runs[c] = 0
    /\ got[c] = "result" => runs[c] = 1

(* Every statement a client has sent is answered in the end, with a result, *)
(* an error or an empty line, even if its storage dies and stays dead.      *)
EveryoneAnswered ==
  \A c \in Clients : conn[c].pc # "idle" ~> conn[c].pc = "idle"

(* A statement that names its table without a database takes effect, at the *)
(* storage it reaches, in the database of the last USE accepted there, and  *)
(* that database exists: whatever was executed or refused there since, by   *)
(* whichever client and in whichever database, unless another accepted USE, *)
(* a DROP of that database or the storage's death undid the USE.  If no USE *)
(* stands there, in particular in a storage started again, the statement    *)
(* changes nothing.  (Whose USE it was makes no difference, and with more   *)
(* than one storage a client's next statement reaches another one.)         *)
Standing(s) == {chosen[d][s] : d \in Clients} \ {None}

FollowsUse(s, stmt) ==
  IF Standing(s) = {} THEN storage' = storage
  ELSE \A d \in Standing(s) :
         /\ d \in Cat!Created(storage[s])
         /\ storage' = [storage EXCEPT ![s] =
              Cat!SetDb(@, d, Cat!OnTables(@.dbs[d], stmt).tables)]

Unqualified(stmt) == stmt.op \notin OnDatabases /\ stmt.db = None

StatementFollowsUse ==
  [][\A c \in Clients :
       Execute(c) /\ Unqualified(Script[c][step[c]])
         => FollowsUse(conn[c].at, Script[c][step[c]])]_routerVars
=============================================================================
