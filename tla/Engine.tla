------------------------------- MODULE Engine -------------------------------
(***************************************************************************)
(* The executor of one storage process, its journal files and REVERT:      *)
(* Executor::execute of src/exec/executor.cpp and src/core/journal.cpp.    *)
(*                                                                         *)
(* A handler thread takes a statement through three moments: it reads the  *)
(* name of the current database, it executes the statement, and, when the  *)
(* statement is to be journaled, it reads the current database AGAIN to    *)
(* pick the file and appends.  No lock spans them, and the executor, its   *)
(* catalog and its current database are shared by all threads.  The        *)
(* process may die at any moment; journals are files and survive it,       *)
(* everything else is memory and does not.                                 *)
(*                                                                         *)
(* Execution of one statement is a single step.  That is exact for one     *)
(* thread; for several it leaves out the data races inside a statement and *)
(* keeps the races between the three moments.                              *)
(***************************************************************************)
EXTENDS Catalog, FiniteSets

CONSTANTS
  Threads,     \* handler threads
  Statements,  \* the statements clients send
  MaxClock,    \* bound: mutating statements per behaviour
  MaxCrashes,  \* bound: process deaths
  MaxLost      \* bound: appends that fail to open the file

\* What the parser makes of a line: statements about databases name one, those
\* about a table may leave its database out.
IsStatement(s) ==
  \/ s.op \in {"create_database", "drop_database", "use"} /\ s.db \in Dbs
  \/ /\ s.op \in {"create_table", "drop_table", "insert", "update", "delete", "select", "revert"}
     /\ s.table \in Tables /\ s.db \in Dbs \cup {NoDb}
     /\ s.op = "insert" => s.keys \in Seq(Keys)
     /\ s.op = "update" => s.keys[1] \in Keys /\ s.keys[2] \in Keys
     /\ s.op = "revert" => s.ts \in Int

ASSUME EngineAssumption ==
  /\ NoDb \notin Dbs
  /\ \A s \in Statements : IsStatement(s)
  /\ IsFiniteSet(Threads)
  /\ {MaxClock, MaxCrashes, MaxLost} \subseteq Nat

VARIABLES
  catalog,  \* catalog_: [dbs, current]
  journal,  \* journal[d]: records [ts, s] of <data_dir>/d/journal.log
  clock,    \* system clock; every append sees a later time than the last
  thread,   \* thread[t]: [at, stmt, dbn, changed], where t is in execute()
  reply,    \* reply[t]: outcome of t's last statement
  freed,    \* the last REVERT used its Database after replay had destroyed it
  offLog,   \* history: databases that differ from their journal by an effect
            \* that was never appended to it
  crashes, lost

engineVars ==
  <<catalog, journal, clock, thread, reply, freed, offLog, crashes, lost>>

Idle == [at |-> "idle"]

EngineInit ==
  /\ catalog = EmptyCatalog
  /\ journal = [d \in Dbs |-> <<>>]
  /\ clock = 0
  /\ thread = [t \in Threads |-> Idle]
  /\ reply = [t \in Threads |-> "none"]
  /\ freed = FALSE
  /\ offLog = {}
  /\ crashes = 0 /\ lost = 0

-----------------------------------------------------------------------------
is_mutating_ForgetsUpdate(s) == s.op \notin {"select", "use", "update"}  \* mutant
is_mutating(s) == s.op \notin {"select", "use"}

\* execute() after parsing: dbn is the current database now.
Receive(t, s) ==
  /\ thread[t] = Idle
  /\ is_mutating(s) => clock + Cardinality({u \in Threads : thread[u] # Idle}) < MaxClock
  /\ thread' = [thread EXCEPT ![t] =
                  [at |-> "exec", stmt |-> s, dbn |-> Current(catalog), changed |-> {}]]
  /\ UNCHANGED <<catalog, journal, clock, reply, freed, offLog, crashes, lost>>

\* The databases whose tables differ between two catalogs.
Changed(c1, c2) ==
  {d \in Created(c2) : d \notin Created(c1) \/ c1.dbs[d] # c2.dbs[d]}

Answer(t, ok) == reply' = [reply EXCEPT ![t] = IF ok THEN "ok" ELSE "err"]

\* exec_statement for everything but REVERT.  A database created anew starts
\* out in step with its journal.
Exec(t) ==
  /\ thread[t].at = "exec"
  /\ thread[t].stmt.op # "revert"
  /\ LET s       == thread[t].stmt
         r       == exec_statement(catalog, s)
         changed == Changed(catalog, r.cat)
         logged  == r.ok /\ is_mutating(s)
     IN /\ catalog' = r.cat
        /\ thread' = [thread EXCEPT ![t] =
                        IF logged THEN [@ EXCEPT !.at = "journal", !.changed = changed]
                                  ELSE Idle]
        /\ offLog' = IF ~r.ok THEN offLog \cup changed
                     ELSE IF s.op = "create_database" THEN offLog \ {s.db}
                     ELSE offLog
        /\ Answer(t, r.ok)
  /\ UNCHANGED <<journal, clock, freed, crashes, lost>>

\* maybe_journal: CREATE DATABASE goes to the new database's file, anything
\* else to the file of the database that is current now, or was at the start.
JournalDb(t) ==
  IF thread[t].stmt.op = "create_database" THEN thread[t].stmt.db
  ELSE IF Current(catalog) # NoDb THEN Current(catalog)
  ELSE thread[t].dbn

\* The statement is over; its effect on the databases in missing never
\* reaches their journals.
Leave(t, missing) ==
  /\ thread' = [thread EXCEPT ![t] = Idle]
  /\ offLog' = offLog \cup missing
  /\ UNCHANGED <<catalog, reply, freed, crashes>>

\* A table of a database other than the one journaled to was named by
\* qualifier: the record goes astray.
Astray(t) ==
  LET s == thread[t].stmt
  IN IF s.op \in {"create_database", "drop_database"} \/ s.db = NoDb
       THEN {} ELSE thread[t].changed \ {JournalDb(t)}

AppendRecord_Again(t) == \* mutant
  /\ thread[t].at = "journal"
  /\ JournalDb(t) # NoDb
  /\ clock' = clock + 1
  /\ journal' = [journal EXCEPT ![JournalDb(t)] =
                   Append(@, [ts |-> clock + 1, stmt |-> thread[t].stmt])]
  /\ UNCHANGED <<thread, offLog, catalog, reply, freed, crashes, lost>>
AppendRecord(t) ==
  /\ thread[t].at = "journal"
  /\ JournalDb(t) # NoDb
  /\ clock' = clock + 1
  /\ journal' = [journal EXCEPT ![JournalDb(t)] =
                   Append(@, [ts |-> clock + 1, stmt |-> thread[t].stmt])]
  /\ Leave(t, Astray(t))
  /\ UNCHANGED lost

\* Nothing is written without a database, and Journal::append returns in
\* silence when the file does not open.  The client is told "ok" all the same.
SkipRecord(t) ==
  /\ thread[t].at = "journal"
  /\ \/ JournalDb(t) = NoDb /\ Leave(t, Astray(t)) /\ UNCHANGED lost
     \/ /\ JournalDb(t) # NoDb /\ lost < MaxLost /\ lost' = lost + 1
        /\ Leave(t, thread[t].changed)
  /\ UNCHANGED <<journal, clock>>

-----------------------------------------------------------------------------
InTime_Strictly(r, ts) == r.ts < ts  \* mutant
InTime(r, ts) == r.ts <= ts

\* One record of d replayed in p = [res, gone, freed].  The first failure ends
\* the replay; a record later than ts is passed over.  Once a record has dropped
\* d itself, the loop asks a destroyed Database for its name: the memory still
\* says d, or it says something else and the remaining records are taken for
\* another database's.
ReplayRecord(p, rec, d, ts, memory) ==
  LET s == rec.stmt
      q == [p EXCEPT !.freed = p.gone]
      r == exec_statement(p.res.cat, s) IN
  IF ~p.res.ok THEN p
  ELSE IF p.gone /\ memory = "overwritten" THEN q
  ELSE IF ~InTime(rec, ts) THEN q
  ELSE [q EXCEPT !.res = r,
                 !.gone = \/ p.gone
                          \/ r.ok /\ s.op = "drop_database" /\ s.db = d]

\* The records recs of d in order of time, on the catalog cat.
Replay(recs, cat, d, ts, memory) ==
  LET replay[i \in 0 .. Len(recs)] ==
        IF i = 0 THEN [res |-> Done(cat), gone |-> FALSE, freed |-> FALSE]
        ELSE ReplayRecord(replay[i - 1], recs[i], d, ts, memory)
  IN replay[Len(recs)]

\* Database d loses its tables, then its journal is replayed.
Replayed(d, ts, memory) ==
  Replay(journal[d], SetDb(catalog, d, NoTables), d, ts, memory)

TableNames(d) == IF d = NoDb THEN {} ELSE DOMAIN catalog.dbs[d]

\* REVERT t ts: refused without a current database that has table t;
\* otherwise drop every table and run the journal.  Never journaled itself.
Revert(t) ==
  /\ thread[t].at = "exec"
  /\ thread[t].stmt.op = "revert"
  /\ LET s == thread[t].stmt
         d == Current(catalog)
         refused == s.table \notin TableNames(d)
     IN \/ refused /\ Answer(t, FALSE) /\ freed' = FALSE /\ UNCHANGED <<catalog, offLog>>
        \/ /\ ~refused
           /\ \E memory \in {"intact", "overwritten"} :
              LET r == Replayed(d, s.ts, memory) IN
              /\ catalog' = r.res.cat
              /\ freed' = r.freed
              /\ offLog' = offLog \cup Changed(catalog, r.res.cat)
              /\ Answer(t, r.res.ok)
  /\ thread' = [thread EXCEPT ![t] = Idle]
  /\ UNCHANGED <<journal, clock, crashes, lost>>

\* The process dies and is started again: nothing is read back.
Crash ==
  /\ crashes < MaxCrashes
  /\ crashes' = crashes + 1
  /\ catalog' = EmptyCatalog
  /\ thread' = [t \in Threads |-> Idle]
  /\ reply' = [t \in Threads |-> "none"]
  /\ freed' = FALSE
  /\ UNCHANGED <<journal, clock, offLog, lost>>

EngineNext ==
  \/ \E t \in Threads :
       \/ \E s \in Statements : Receive(t, s)
       \/ Exec(t) \/ Revert(t)
       \/ AppendRecord(t) \/ SkipRecord(t)
  \/ Crash

EngineSpec == EngineInit /\ [][EngineNext]_engineVars

-----------------------------------------------------------------------------
\* The tables of database d as its journal tells them, up to time ts: what d
\* was told to do since it was last created, records about other databases
\* passed over.
TellRecord(tables, rec, d, ts) ==
  LET s == rec.stmt IN
  CASE rec.ts > ts -> tables
    [] rec.ts <= ts /\ s.op \in {"create_database", "drop_database"} ->
         IF s.db = d THEN NoTables ELSE tables
    [] OTHER -> IF s.db \in {NoDb, d} THEN OnTables(tables, s).tables ELSE tables

ToldBy(recs, d, ts) ==
  LET told[i \in 0 .. Len(recs)] ==
        IF i = 0 THEN NoTables ELSE TellRecord(told[i - 1], recs[i], d, ts)
  IN told[Len(recs)]

Told(d, ts) == ToldBy(journal[d], d, ts)

EngineTypeOK ==
  /\ Created(catalog) \subseteq Dbs
  /\ catalog.current \in Dbs \cup {NoDb}
  /\ \A d \in Created(catalog) : \A tb \in DOMAIN catalog.dbs[d] :
       tb \in Tables /\ catalog.dbs[d][tb] \subseteq Keys
  /\ clock \in 0 .. MaxClock
  /\ \A t \in Threads : thread[t] = Idle \/ thread[t].stmt \in Statements
  /\ reply \in [Threads -> {"none", "ok", "err"}]
  /\ offLog \subseteq Dbs

\* The current database is an existing one or none: dropping it resets the
\* name, so a database created later under the same name is not entered
\* without a USE.
CurrentExists == catalog.current \in Created(catalog) \cup {NoDb}

\* A database differs from what its journal tells only in the ways offLog
\* records: a statement that named it from outside, a failed statement that
\* had done part of its work, a REVERT, a lost append.  In particular its
\* history before it was dropped and created again, or before the process
\* died, does not come back.
JournalTellsTables ==
  \A d \in Created(catalog) \ offLog :
    (\A t \in Threads : thread[t] # Idle => d \notin thread[t].changed)
      => Told(d, MaxClock) = catalog.dbs[d]

\* Thread t runs a REVERT in this step and is answered "ok" or "err".
RevertAnswered(t, ok) ==
  /\ thread[t] # Idle /\ thread[t].at = "exec" /\ thread[t].stmt.op = "revert"
  /\ thread'[t] = Idle /\ reply'[t] = (IF ok THEN "ok" ELSE "err")
  /\ Current(catalog) # NoDb

\* When REVERT answers "reverted", the database is as its journal told it at
\* that time, unless it is gone altogether, or replay destroyed and perhaps
\* created it again while REVERT still used the old Database (freed): that is
\* undefined behaviour, of which nothing is claimed.
RevertedIsTold ==
  [][\A t \in Threads :
       LET d == Current(catalog) IN
       RevertAnswered(t, TRUE) /\ d \in Created(catalog') /\ ~freed'
         => catalog'.dbs[d] = Told(d, thread[t].stmt.ts)]_engineVars

\* As long as no append is lost, REVERT stays within the current database and
\* never gets to use a Database it has destroyed: replay starts with that
\* database's own CREATE DATABASE, which fails because the database exists.
RevertStaysHome ==
  [][\A t \in Threads, ok \in BOOLEAN :
       lost = 0 /\ RevertAnswered(t, ok) =>
         /\ ~freed'
         /\ Created(catalog') = Created(catalog)
         /\ \A d \in Created(catalog) \ {Current(catalog)} :
              catalog'.dbs[d] = catalog.dbs[d]]_engineVars

\* "journal provides durability path for revert" (executor.cpp:65): a REVERT
\* that is not refused leaves the database as its journal told it at that time.
RevertRestores ==
  [][\A t \in Threads, ok \in BOOLEAN :
       LET d == Current(catalog) IN
       RevertAnswered(t, ok) /\ thread[t].stmt.table \in TableNames(d)
         => catalog'.dbs[d] = Told(d, thread[t].stmt.ts)]_engineVars
=============================================================================
