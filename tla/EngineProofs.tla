---------------------------- MODULE EngineProofs ----------------------------
(***************************************************************************)
(* What Engine promises, for any databases, statements, threads and        *)
(* bounds; the last part, for a process with one handler thread.           *)
(*                                                                         *)
(* First the operators: what a statement does to a catalog, and that a     *)
(* REVERT's replay and the journal's own account of a database, both       *)
(* recursive, take one record more by one step.  Then the invariants.      *)
(***************************************************************************)
EXTENDS Engine, Induction, FiniteSetTheorems

-----------------------------------------------------------------------------
(* Catalogs and statements.                                                 *)
TablesOK(tables) ==
  /\ tables = [t \in DOMAIN tables |-> tables[t]]
  /\ DOMAIN tables \subseteq Tables
  /\ \A t \in DOMAIN tables : tables[t] \subseteq Keys

CatalogOK(cat) ==
  /\ cat = [dbs |-> cat.dbs, current |-> cat.current]
  /\ cat.dbs = [d \in DOMAIN cat.dbs |-> cat.dbs[d]]
  /\ Created(cat) \subseteq Dbs
  /\ cat.current \in Created(cat) \cup {NoDb}
  /\ \A d \in Created(cat) : TablesOK(cat.dbs[d])

(* What is executed and journaled: any statement but REVERT.                *)
Executable(s) == IsStatement(s) /\ s.op # "revert"

LEMMA SetDbFacts ==
  ASSUME NEW cat, NEW d, NEW tables, cat = [dbs |-> cat.dbs, current |-> cat.current]
  PROVE  /\ SetDb(cat, d, tables) = [dbs |-> With(cat.dbs, d, tables), current |-> cat.current]
         /\ SetDb(cat, d, tables).dbs = With(cat.dbs, d, tables)
         /\ SetDb(cat, d, tables).current = cat.current
         /\ Created(SetDb(cat, d, tables)) = Created(cat) \cup {d}
<1> DEFINE dbs == With(cat.dbs, d, tables)
<1>1. SetDb(cat, d, tables) = [dbs |-> dbs, current |-> cat.current]
  BY DEF SetDb
<1>2. DOMAIN dbs = Created(cat) \cup {d}
  BY DEF Created, With
<1> HIDE DEF dbs
<1>3. SetDb(cat, d, tables).dbs = dbs /\ SetDb(cat, d, tables).current = cat.current
  BY <1>1
<1> QED BY <1>1, <1>2, <1>3 DEF dbs, Created

LEMMA WithTablesOK ==
  ASSUME NEW tables, TablesOK(tables), NEW t \in Tables, NEW keys \in SUBSET Keys
  PROVE  TablesOK(With(tables, t, keys))
<1> DEFINE new == With(tables, t, keys)
<1>1. /\ DOMAIN new = DOMAIN tables \cup {t} /\ new[t] = keys
      /\ \A x \in DOMAIN tables \ {t} : new[x] = tables[x]
      /\ new = [x \in DOMAIN new |-> new[x]]
  BY DEF With
<1> HIDE DEF new
<1>2. DOMAIN new \subseteq Tables
  BY <1>1 DEF TablesOK
<1>3. \A x \in DOMAIN new : new[x] \subseteq Keys
  BY <1>1 DEF TablesOK
<1>4. TablesOK(new)
  BY <1>1, <1>2, <1>3 DEF TablesOK
<1> QED BY <1>4 DEF new

LEMMA NoTablesOK == TablesOK(NoTables)
BY DEF TablesOK, NoTables

(* A database set or replaced leaves a catalog in order.                    *)
LEMMA SetDbOK ==
  ASSUME NEW cat, CatalogOK(cat), NEW d \in Dbs, NEW tables, TablesOK(tables)
  PROVE  CatalogOK(SetDb(cat, d, tables))
<1> DEFINE c == SetDb(cat, d, tables)
           dbs == With(cat.dbs, d, tables)
<1>1. /\ DOMAIN dbs = DOMAIN cat.dbs \cup {d} /\ dbs[d] = tables
      /\ \A e \in DOMAIN cat.dbs \ {d} : dbs[e] = cat.dbs[e]
      /\ dbs = [e \in DOMAIN dbs |-> dbs[e]]
  BY DEF With
<1>2. /\ c = [dbs |-> c.dbs, current |-> c.current]
      /\ c.dbs = dbs /\ c.current = cat.current
  BY SetDbFacts DEF CatalogOK
<1> HIDE DEF c, dbs
<1>3. ASSUME NEW e \in DOMAIN dbs PROVE e \in Dbs /\ TablesOK(dbs[e])
  <2>1. CASE e = d
    BY <1>1, <2>1
  <2>2. CASE e # d
    <3>1. e \in Created(cat) /\ dbs[e] = cat.dbs[e]
      BY <1>1, <1>3, <2>2 DEF Created
    <3> QED BY <3>1 DEF CatalogOK
  <2> QED BY <2>1, <2>2
<1>4. CatalogOK(c)
  BY <1>1, <1>2, <1>3 DEF CatalogOK, Created
<1> QED BY <1>4 DEF c

(* An INSERT leaves keys of the table's own kind behind.                    *)
LEMMA InsertedOK ==
  ASSUME NEW keys \in SUBSET Keys, NEW ks \in Seq(Keys)
  PROVE  Inserted(keys, ks).keys \subseteq Keys /\ Inserted(keys, ks).ok \in BOOLEAN
<1> DEFINE fits == {n \in 0 .. Len(ks) :
                      \A j \in 1 .. n : ks[j] \notin keys \cup {ks[i] : i \in 1 .. j - 1}}
<1>1. Len(ks) \in Nat /\ fits \in SUBSET (0 .. Len(ks)) /\ 0 \in fits
  OBVIOUS
<1> HIDE DEF fits
<1>2. Max(fits) \in 0 .. Len(ks)
  BY <1>1, MaxIsGreatest
<1>3. \A i \in 1 .. Max(fits) : ks[i] \in Keys
  BY <1>1, <1>2
<1>4. Inserted(keys, ks) = [ok |-> Max(fits) = Len(ks), keys |-> keys \cup {ks[i] : i \in 1 .. Max(fits)}]
  BY DEF Inserted, fits
<1> QED BY <1>3, <1>4

(* Statements about one table keep the tables of its database in order.     *)
LEMMA OnTablesOK ==
  ASSUME NEW tables, TablesOK(tables), NEW s, Executable(s),
         s.op \notin {"create_database", "drop_database", "use"}
  PROVE  TablesOK(OnTables(tables, s).tables) /\ OnTables(tables, s).ok \in BOOLEAN
<1>1. /\ s.table \in Tables
      /\ s.op \in {"create_table", "drop_table", "insert", "update", "delete", "select"}
      /\ s.op = "insert" => s.keys \in Seq(Keys)
      /\ s.op = "update" => s.keys[1] \in Keys /\ s.keys[2] \in Keys
  BY DEF Executable, IsStatement
<1>2. CASE s.op = "create_table"
  <2>1. OnTables(tables, s) = create_table(tables, s.table)
    BY <1>2 DEF OnTables
  <2>2. TablesOK(With(tables, s.table, {}))
    BY <1>1, WithTablesOK
  <2> QED BY <2>1, <2>2 DEF create_table
<1>3. CASE s.op = "drop_table"
  <2>1. OnTables(tables, s) = drop_table(tables, s.table)
    BY <1>3 DEF OnTables
  <2>2. TablesOK(Without(tables, s.table))
    BY DEF TablesOK, Without
  <2> QED BY <2>1, <2>2 DEF drop_table
<1>4. CASE s.op \in {"insert", "update", "delete", "select"} /\ s.table \notin DOMAIN tables
  <2>1. OnTables(tables, s) = [ok |-> FALSE, tables |-> tables]
    BY <1>4 DEF OnTables
  <2> QED BY <2>1
<1>5. CASE s.op \in {"insert", "update", "delete", "select"} /\ s.table \in DOMAIN tables
  <2> DEFINE keys == tables[s.table]
             r == Rewritten(s, keys)
  <2>1. keys \in SUBSET Keys
    BY <1>5 DEF TablesOK
  <2>2. r.keys \in SUBSET Keys /\ r.ok \in BOOLEAN
    <3> HIDE DEF keys
    <3>1. CASE s.op = "insert"
      BY <1>1, <2>1, <3>1, InsertedOK DEF Rewritten
    <3>2. CASE s.op = "update"
      BY <1>1, <2>1, <3>2 DEF Rewritten, Updated
    <3>3. CASE s.op \in {"delete", "select"}
      BY <2>1, <3>3 DEF Rewritten
    <3> QED BY <1>5, <3>1, <3>2, <3>3
  <2>3. OnTables(tables, s) = [ok |-> r.ok, tables |-> With(tables, s.table, r.keys)]
    BY <1>5 DEF OnTables
  <2> HIDE DEF r, keys
  <2>4. TablesOK(With(tables, s.table, r.keys))
    BY <1>1, <2>2, WithTablesOK
  <2> QED BY <2>2, <2>3, <2>4
<1> QED BY <1>1, <1>2, <1>3, <1>4, <1>5

(* The result of a statement, and databases that are the same in two        *)
(* catalogs: names for the provers to hold on to.                            *)
Executed(cat, s, r) == r = exec_statement(cat, s)

Same(ds, c1, c2) == \A d \in ds : c2.dbs[d] = c1.dbs[d]

Gains(c1, c2, d) == Created(c2) = Created(c1) \cup {d}
Loses(c1, c2, d) == Created(c2) = Created(c1) \ {d}
Keeps(c1, c2)    == Created(c2) = Created(c1)

(* What each kind of statement does to a catalog.                           *)
LEMMA CreateEffect ==
  ASSUME NEW cat, CatalogOK(cat), NEW s, s.op = "create_database", s.db \in Dbs,
         NEW r, Executed(cat, s, r)
  PROVE  /\ CatalogOK(r.cat)
         /\ \/ s.db \in Created(cat) /\ r.cat = cat /\ r.ok = FALSE
            \/ /\ s.db \notin Created(cat) /\ r.ok = TRUE
               /\ Gains(cat, r.cat, s.db)
               /\ r.cat.current = cat.current
               /\ r.cat.dbs[s.db] = NoTables
               /\ Same(Created(cat), cat, r.cat)
<1>1. r = create_database(cat, s.db)
  BY DEF Executed, exec_statement
<1>2. CASE s.db \in Created(cat)
  <2>1. r = Failed(cat)
    BY <1>1, <1>2 DEF create_database
  <2>2. r.cat = cat /\ r.ok = FALSE
    BY <2>1 DEF Failed
  <2> QED BY <1>2, <2>2
<1>3. CASE s.db \notin Created(cat)
  <2> DEFINE c == SetDb(cat, s.db, NoTables)
             dbs == With(cat.dbs, s.db, NoTables)
  <2>1. r = Done(c)
    BY <1>1, <1>3 DEF create_database
  <2>2. c.dbs = dbs /\ c.current = cat.current /\ Created(c) = Created(cat) \cup {s.db}
    BY SetDbFacts DEF CatalogOK
  <2>3. dbs[s.db] = NoTables /\ \A d \in Created(cat) : d # s.db => dbs[d] = cat.dbs[d]
    BY DEF With, Created
  <2>4. CatalogOK(c)
    BY SetDbOK, NoTablesOK
  <2> HIDE DEF c, dbs
  <2>5. r.cat = c /\ r.ok = TRUE
    BY <2>1 DEF Done
  <2>6. Same(Created(cat), cat, r.cat)
    BY <1>3, <2>2, <2>3, <2>5 DEF Same
  <2>7. Gains(cat, r.cat, s.db)
    BY <2>2, <2>5 DEF Gains
  <2> QED BY <1>3, <2>2, <2>3, <2>4, <2>5, <2>6, <2>7
<1> QED BY <1>2, <1>3

LEMMA DropEffect ==
  ASSUME NEW cat, CatalogOK(cat), NEW s, s.op = "drop_database", s.db \in Dbs,
         NEW r, Executed(cat, s, r)
  PROVE  /\ CatalogOK(r.cat)
         /\ \/ s.db \notin Created(cat) /\ r.cat = cat /\ r.ok = FALSE
            \/ /\ s.db \in Created(cat) /\ r.ok = TRUE
               /\ Loses(cat, r.cat, s.db)
               /\ r.cat.current = (IF cat.current = s.db THEN NoDb ELSE cat.current)
               /\ Same(Created(r.cat), cat, r.cat)
<1>1. r = drop_database(cat, s.db)
  BY DEF Executed, exec_statement
<1>2. CASE s.db \notin Created(cat)
  <2>1. r = Failed(cat)
    BY <1>1, <1>2 DEF drop_database
  <2>2. r.cat = cat /\ r.ok = FALSE
    BY <2>1 DEF Failed
  <2> QED BY <1>2, <2>2
<1>3. CASE s.db \in Created(cat)
  <2> DEFINE dbs == Without(cat.dbs, s.db)
             current == IF cat.current = s.db THEN NoDb ELSE cat.current
             c == [dbs |-> dbs, current |-> current]
  <2>1. r = Done(c)
    BY <1>1, <1>3 DEF drop_database
  <2>2. DOMAIN dbs = Created(cat) \ {s.db} /\ dbs = [d \in DOMAIN dbs |-> dbs[d]]
        /\ \A d \in DOMAIN dbs : dbs[d] = cat.dbs[d]
    BY DEF Without, Created
  <2>3. current \in (Created(cat) \ {s.db}) \cup {NoDb}
    BY DEF CatalogOK
  <2> HIDE DEF dbs, current
  <2>4. c.dbs = dbs /\ c.current = current /\ c = [dbs |-> c.dbs, current |-> c.current]
    OBVIOUS
  <2> HIDE DEF c
  <2>5. r.cat = c /\ r.ok = TRUE
    BY <2>1 DEF Done
  <2>6. \A d \in DOMAIN dbs : d \in Dbs /\ TablesOK(dbs[d])
    BY <2>2 DEF CatalogOK
  <2>7. CatalogOK(c)
    BY <2>2, <2>3, <2>4, <2>6 DEF CatalogOK, Created
  <2>8. Created(c) = Created(cat) \ {s.db}
    BY <2>2, <2>4 DEF Created
  <2>9. Same(Created(r.cat), cat, r.cat)
    BY <2>2, <2>4, <2>5 DEF Same, Created
  <2>10. Loses(cat, r.cat, s.db)
    BY <2>5, <2>8 DEF Loses
  <2> QED BY <1>3, <2>4, <2>5, <2>7, <2>9, <2>10 DEF current
<1> QED BY <1>2, <1>3

LEMMA UseEffect ==
  ASSUME NEW cat, CatalogOK(cat), NEW s, s.op = "use", s.db \in Dbs,
         NEW r, Executed(cat, s, r)
  PROVE  /\ CatalogOK(r.cat)
         /\ r.cat.dbs = cat.dbs
         /\ r.ok \in BOOLEAN /\ (r.ok \/ r.cat = cat)
<1>1. r = set_current(cat, s.db)
  BY DEF Executed, exec_statement
<1>2. CASE s.db \notin Created(cat)
  <2>1. r.cat = cat /\ r.ok = FALSE
    BY <1>1, <1>2 DEF set_current, Failed
  <2> QED BY <2>1
<1>3. CASE s.db \in Created(cat)
  <2>1. r = Done([cat EXCEPT !.current = s.db])
    BY <1>1, <1>3 DEF set_current
  <2>2. [cat EXCEPT !.current = s.db] = [dbs |-> cat.dbs, current |-> s.db]
    BY DEF CatalogOK
  <2>3. r.cat = [dbs |-> cat.dbs, current |-> s.db] /\ r.ok = TRUE
    BY <2>1, <2>2 DEF Done
  <2>4. r.cat.dbs = cat.dbs /\ r.cat.current = s.db
    BY <2>3
  <2>5. CatalogOK(r.cat)
    BY <1>3, <2>3, <2>4 DEF CatalogOK, Created
  <2> QED BY <2>3, <2>4, <2>5
<1> QED BY <1>2, <1>3

LEMMA TableEffect ==
  ASSUME NEW cat, CatalogOK(cat), NoDb \notin Dbs, NEW s, Executable(s),
         s.op \notin {"create_database", "drop_database", "use"},
         NEW r, Executed(cat, s, r)
  PROVE  /\ CatalogOK(r.cat)
         /\ \/ HomeDb(cat, s) \notin Created(cat) /\ r.cat = cat /\ r.ok = FALSE
            \/ /\ HomeDb(cat, s) \in Created(cat)
               /\ r.ok = OnTables(cat.dbs[HomeDb(cat, s)], s).ok /\ r.ok \in BOOLEAN
               /\ Keeps(cat, r.cat)
               /\ r.cat.current = cat.current
               /\ r.cat.dbs[HomeDb(cat, s)] = OnTables(cat.dbs[HomeDb(cat, s)], s).tables
               /\ Same(Created(cat) \ {HomeDb(cat, s)}, cat, r.cat)
<1> DEFINE h == HomeDb(cat, s)
<1>1. CASE h \notin Created(cat)
  <2>1. r = Failed(cat)
    BY <1>1 DEF Executed, exec_statement
  <2>2. r.cat = cat /\ r.ok = FALSE
    BY <2>1 DEF Failed
  <2> QED BY <1>1, <2>2
<1>2. CASE h \in Created(cat)
  <2> DEFINE o == OnTables(cat.dbs[h], s)
             c == SetDb(cat, h, o.tables)
             dbs == With(cat.dbs, h, o.tables)
  <2>1. r = [cat |-> c, ok |-> o.ok]
    BY <1>2 DEF Executed, exec_statement
  <2>2. TablesOK(o.tables) /\ o.ok \in BOOLEAN /\ h \in Dbs
    BY <1>2, OnTablesOK DEF CatalogOK
  <2>3. c.dbs = dbs /\ c.current = cat.current /\ Created(c) = Created(cat) \cup {h}
    BY SetDbFacts DEF CatalogOK
  <2>4. dbs[h] = o.tables /\ \A d \in Created(cat) \ {h} : dbs[d] = cat.dbs[d]
    BY DEF With, Created
  <2>5. CatalogOK(c)
    <3> HIDE DEF o
    <3> QED BY <2>2, SetDbOK
  <2> HIDE DEF c, dbs, o
  <2>6. r.cat = c /\ r.ok = o.ok
    BY <2>1
  <2>7. Created(c) = Created(cat)
    BY <1>2, <2>3
  <2>8. Same(Created(cat) \ {h}, cat, r.cat)
    BY <2>3, <2>4, <2>6 DEF Same
  <2>9. Keeps(cat, r.cat)
    BY <2>6, <2>7 DEF Keeps
  <2> QED BY <1>2, <2>2, <2>3, <2>4, <2>5, <2>6, <2>8, <2>9 DEF o
<1> QED BY <1>1, <1>2

(* Whatever is executed, the catalog stays in order.                        *)
LEMMA ExecutedOK ==
  ASSUME EngineAssumption, NEW cat, CatalogOK(cat), NEW s, Executable(s),
         NEW r, Executed(cat, s, r)
  PROVE  CatalogOK(r.cat) /\ r.ok \in BOOLEAN
<1>1. CASE s.op = "create_database"
  <2>1. s.db \in Dbs
    BY <1>1 DEF Executable, IsStatement
  <2> QED BY <1>1, <2>1, CreateEffect
<1>2. CASE s.op = "drop_database"
  <2>1. s.db \in Dbs
    BY <1>2 DEF Executable, IsStatement
  <2> QED BY <1>2, <2>1, DropEffect
<1>3. CASE s.op = "use"
  <2>1. s.db \in Dbs
    BY <1>3 DEF Executable, IsStatement
  <2> QED BY <1>3, <2>1, UseEffect
<1>4. CASE s.op \notin {"create_database", "drop_database", "use"}
  BY <1>4, TableEffect DEF EngineAssumption
<1> QED BY <1>1, <1>2, <1>3, <1>4

-----------------------------------------------------------------------------
(* The two recursive operators, record by record.  A recursive function is *)
(* a CHOOSE: that one exists is an induction over the length of the        *)
(* journal, and so is that it is the only one.                              *)
ReplayStart(cat) == [res |-> Done(cat), gone |-> FALSE, freed |-> FALSE]

IsReplay(f, recs, cat, d, ts, memory) ==
  /\ f[0] = ReplayStart(cat)
  /\ \A i \in 1 .. Len(recs) : f[i] = ReplayRecord(f[i - 1], recs[i], d, ts, memory)

LEMMA ReplaySteps ==
  ASSUME NEW recs, Len(recs) \in Nat, NEW cat, NEW d, NEW ts, NEW memory
  PROVE  \E f : /\ IsReplay(f, recs, cat, d, ts, memory)
                /\ Replay(recs, cat, d, ts, memory) = f[Len(recs)]
<1> DEFINE Step(f, i) == IF i = 0 THEN [res |-> Done(cat), gone |-> FALSE, freed |-> FALSE]
                         ELSE ReplayRecord(f[i - 1], recs[i], d, ts, memory)
           Fits(f, n) == f = [i \in 0 .. n |-> Step(f, i)]
           S == {n \in 0 .. Len(recs) : \E f : Fits(f, n)}
<1>1. 0 \in S
  <2> DEFINE f == [i \in 0 .. 0 |-> Step(<<>>, 0)]
  <2>1. Fits(f, 0)
    OBVIOUS
  <2> HIDE DEF f, Fits
  <2> QED BY <2>1
<1>2. ASSUME NEW n \in 0 .. Len(recs) - 1, n \in S PROVE n + 1 \in S
  <2>1. PICK f : Fits(f, n)
    BY <1>2
  <2> DEFINE g == [i \in 0 .. n + 1 |-> IF i = n + 1 THEN Step(f, n + 1) ELSE f[i]]
  <2>2. ASSUME NEW i \in 0 .. n + 1 PROVE g[i] = Step(g, i)
    <3>1. CASE i = 0
      <4>1. g[i] = f[0] /\ f[0] = Step(f, 0)
        BY <2>1, <3>1
      <4> QED BY <3>1, <4>1
    <3>2. CASE i \in 1 .. n + 1
      <4>1. g[i - 1] = f[i - 1] /\ i # 0
        BY <3>2
      <4>2. g[i] = IF i = n + 1 THEN Step(f, n + 1) ELSE f[i]
        OBVIOUS
      <4>3. i # n + 1 => f[i] = Step(f, i)
        <5> HIDE DEF Step
        <5> QED BY <2>1, <3>2
      <4>4. g[i] = Step(f, i)
        <5> HIDE DEF g, Step
        <5> QED BY <4>2, <4>3
      <4> HIDE DEF g
      <4> QED BY <4>1, <4>4
    <3> QED BY <3>1, <3>2
  <2>3. Fits(g, n + 1)
    <3>1. g = [i \in 0 .. n + 1 |-> g[i]]
      OBVIOUS
    <3> HIDE DEF g, Step
    <3> QED BY <2>2, <3>1
  <2> HIDE DEF g, Fits
  <2> QED BY <2>3
<1>3. Len(recs) \in S
  <2> HIDE DEF S
  <2>1. 0 .. Len(recs) \subseteq S
    BY <1>1, <1>2, UpTo
  <2> QED BY <2>1
<1> DEFINE f == CHOOSE f : Fits(f, Len(recs))
<1>4. Fits(f, Len(recs))
  <2>1. \E g : Fits(g, Len(recs))
    BY <1>3
  <2> HIDE DEF Fits
  <2> QED BY <2>1
<1>5. Replay(recs, cat, d, ts, memory) = f[Len(recs)]
  BY DEF Replay
<1> HIDE DEF f
<1>6. \A i \in 0 .. Len(recs) : f[i] = Step(f, i)
  <2> HIDE DEF Step
  <2> QED BY <1>4
<1>7. f[0] = ReplayStart(cat)
  <2>1. f[0] = Step(f, 0)
    <3> HIDE DEF Step
    <3> QED BY <1>6
  <2>2. Step(f, 0) = ReplayStart(cat)
    BY DEF ReplayStart
  <2> HIDE DEF Step
  <2> QED BY <2>1, <2>2
<1>8. \A i \in 1 .. Len(recs) : f[i] = ReplayRecord(f[i - 1], recs[i], d, ts, memory)
  BY <1>6
<1>9. IsReplay(f, recs, cat, d, ts, memory)
  BY <1>7, <1>8 DEF IsReplay
<1> QED BY <1>5, <1>9

IsTelling(f, recs, d, ts) ==
  /\ f[0] = NoTables
  /\ \A i \in 1 .. Len(recs) : f[i] = TellRecord(f[i - 1], recs[i], d, ts)

LEMMA TellingSteps ==
  ASSUME NEW recs, Len(recs) \in Nat, NEW d, NEW ts
  PROVE  \E f : IsTelling(f, recs, d, ts) /\ ToldBy(recs, d, ts) = f[Len(recs)]
<1> DEFINE Step(f, i) == IF i = 0 THEN NoTables ELSE TellRecord(f[i - 1], recs[i], d, ts)
           Fits(f, n) == f = [i \in 0 .. n |-> Step(f, i)]
           S == {n \in 0 .. Len(recs) : \E f : Fits(f, n)}
<1>1. 0 \in S
  <2> DEFINE f == [i \in 0 .. 0 |-> Step(<<>>, 0)]
  <2>1. Fits(f, 0)
    OBVIOUS
  <2> HIDE DEF f, Fits
  <2> QED BY <2>1
<1>2. ASSUME NEW n \in 0 .. Len(recs) - 1, n \in S PROVE n + 1 \in S
  <2>1. PICK f : Fits(f, n)
    BY <1>2
  <2> DEFINE g == [i \in 0 .. n + 1 |-> IF i = n + 1 THEN Step(f, n + 1) ELSE f[i]]
  <2>2. ASSUME NEW i \in 0 .. n + 1 PROVE g[i] = Step(g, i)
    <3>1. CASE i = 0
      <4>1. g[i] = f[0] /\ f[0] = Step(f, 0)
        BY <2>1, <3>1
      <4> QED BY <3>1, <4>1
    <3>2. CASE i \in 1 .. n + 1
      <4>1. g[i - 1] = f[i - 1] /\ i # 0
        BY <3>2
      <4>2. g[i] = IF i = n + 1 THEN Step(f, n + 1) ELSE f[i]
        OBVIOUS
      <4>3. i # n + 1 => f[i] = Step(f, i)
        <5> HIDE DEF Step
        <5> QED BY <2>1, <3>2
      <4>4. g[i] = Step(f, i)
        <5> HIDE DEF g, Step
        <5> QED BY <4>2, <4>3
      <4> HIDE DEF g
      <4> QED BY <4>1, <4>4
    <3> QED BY <3>1, <3>2
  <2>3. Fits(g, n + 1)
    <3>1. g = [i \in 0 .. n + 1 |-> g[i]]
      OBVIOUS
    <3> HIDE DEF g, Step
    <3> QED BY <2>2, <3>1
  <2> HIDE DEF g, Fits
  <2> QED BY <2>3
<1>3. Len(recs) \in S
  <2> HIDE DEF S
  <2>1. 0 .. Len(recs) \subseteq S
    BY <1>1, <1>2, UpTo
  <2> QED BY <2>1
<1> DEFINE f == CHOOSE f : Fits(f, Len(recs))
<1>4. Fits(f, Len(recs))
  <2>1. \E g : Fits(g, Len(recs))
    BY <1>3
  <2> HIDE DEF Fits
  <2> QED BY <2>1
<1>5. ToldBy(recs, d, ts) = f[Len(recs)]
  BY DEF ToldBy
<1> HIDE DEF f
<1>6. \A i \in 0 .. Len(recs) : f[i] = Step(f, i)
  <2> HIDE DEF Step
  <2> QED BY <1>4
<1>7. IsTelling(f, recs, d, ts)
  BY <1>6 DEF IsTelling
<1> QED BY <1>5, <1>7

(* The tables a journal tells are those after its last record.              *)
LEMMA ToldByAppend ==
  ASSUME NEW R, NEW recs \in Seq(R), NEW rec \in R, NEW d, NEW ts
  PROVE  ToldBy(Append(recs, rec), d, ts) = TellRecord(ToldBy(recs, d, ts), rec, d, ts)
<1> DEFINE n == Len(recs)
           more == Append(recs, rec)
<1>1. n \in Nat /\ Len(more) = n + 1 /\ more[n + 1] = rec /\ \A i \in 1 .. n : more[i] = recs[i]
  OBVIOUS
<1> HIDE DEF more
<1>2. PICK f : IsTelling(f, recs, d, ts) /\ ToldBy(recs, d, ts) = f[n]
  BY <1>1, TellingSteps
<1>3. PICK g : IsTelling(g, more, d, ts) /\ ToldBy(more, d, ts) = g[n + 1]
  <2>1. Len(more) \in Nat
    BY <1>1
  <2>2. \E g : IsTelling(g, more, d, ts) /\ ToldBy(more, d, ts) = g[Len(more)]
    BY <2>1, TellingSteps
  <2> QED BY <1>1, <2>2
<1> DEFINE S == {i \in 0 .. n : f[i] = g[i]}
<1>4. 0 \in S
  BY <1>1, <1>2, <1>3 DEF IsTelling
<1>5. ASSUME NEW i \in 0 .. n - 1, i \in S PROVE i + 1 \in S
  <2>1. f[i] = g[i] /\ i + 1 \in 1 .. n /\ i + 1 \in 1 .. Len(more) /\ i + 1 - 1 = i
    BY <1>1, <1>5
  <2>2. f[i + 1] = TellRecord(f[i], recs[i + 1], d, ts)
    BY <1>2, <2>1 DEF IsTelling
  <2>3. g[i + 1] = TellRecord(g[i], more[i + 1], d, ts)
    BY <1>3, <2>1 DEF IsTelling
  <2>4. f[i + 1] = g[i + 1]
    BY <1>1, <2>1, <2>2, <2>3
  <2> QED BY <2>1, <2>4
<1>6. n \in S
  <2> HIDE DEF S
  <2>1. 0 .. n \subseteq S
    BY <1>1, <1>4, <1>5, UpTo
  <2> QED BY <1>1, <2>1
<1>7. g[n + 1] = TellRecord(g[n], rec, d, ts)
  <2>1. n + 1 \in 1 .. Len(more) /\ n + 1 - 1 = n
    BY <1>1
  <2> QED BY <1>1, <1>3, <2>1 DEF IsTelling
<1> QED BY <1>2, <1>3, <1>6, <1>7 DEF more

-----------------------------------------------------------------------------
(* The invariant that holds for any number of handler threads.             *)
Journaled == {s \in Statements : is_mutating(s) /\ s.op # "revert"}

Records == [ts : Nat, stmt : Journaled]

(* Journals hold what was executed, each record older than the next.        *)
JournalOK ==
  /\ journal \in [Dbs -> Seq(Records)]
  /\ \A d \in Dbs : \A i \in 1 .. Len(journal[d]) :
       /\ journal[d][i].ts <= clock
       /\ \A j \in 1 .. Len(journal[d]) : i < j => journal[d][i].ts < journal[d][j].ts

(* A thread about to append has executed what it appends.                   *)
ThreadOK(t) ==
  \/ thread[t] = Idle
  \/ /\ thread[t] \in [at : {"exec", "journal"}, stmt : Statements,
                       dbn : Dbs \cup {NoDb}, changed : SUBSET Dbs]
     /\ thread[t].at = "journal" => thread[t].stmt \in Journaled

(* Every statement on its way to the journal has its place before the bound. *)
Writers == {t \in Threads : thread[t] # Idle /\ is_mutating(thread[t].stmt)}

EngineInv ==
  /\ CatalogOK(catalog)
  /\ JournalOK
  /\ thread = [t \in Threads |-> thread[t]]
  /\ \A t \in Threads : ThreadOK(t)
  /\ clock \in Nat /\ clock + Cardinality(Writers) <= MaxClock
  /\ lost \in Nat
  /\ reply \in [Threads -> {"none", "ok", "err"}]
  /\ offLog \subseteq Dbs

(* With one thread.  A journal from which nothing was lost begins with the  *)
(* creation of its database, and it has begun for every database there is,  *)
(* but for one whose creation is still to be appended.                       *)
OwnCreation(d) ==
  journal[d] = <<>> \/ (journal[d][1].stmt.op = "create_database" /\ journal[d][1].stmt.db = d)

Creating(h, d) ==
  /\ thread[h] # Idle /\ thread[h].at = "journal"
  /\ thread[h].stmt.op = "create_database" /\ thread[h].stmt.db = d

HomeInv(h) ==
  lost = 0 =>
    /\ \A d \in Dbs : OwnCreation(d)
    /\ \A d \in Created(catalog) : journal[d] # <<>> \/ Creating(h, d)
    /\ thread[h] # Idle /\ thread[h].dbn # NoDb => journal[thread[h].dbn] # <<>>

(* With one thread.  A database either is what its journal tells, or will   *)
(* be once the record of the statement that changed it is in that journal.  *)
InStep(d) == Told(d, MaxClock) = catalog.dbs[d]

OnTable(s) == s.op \notin {"create_database", "drop_database", "use", "revert"}

Pending(s, changed) ==
  /\ s.op = "drop_database" => s.db \notin Created(catalog)
  /\ OnTable(s) => HomeDb(catalog, s) \in Created(catalog)
  /\ \A d \in Created(catalog) :
       /\ d \in changed => \/ s.op = "create_database" /\ s.db = d
                           \/ OnTable(s) /\ d = HomeDb(catalog, s)
       /\ s.op = "create_database" /\ s.db = d => d \in changed
  /\ \A d \in Created(catalog) \ offLog :
       /\ d \notin changed => InStep(d)
       /\ s.op = "create_database" /\ s.db = d => catalog.dbs[d] = NoTables
       /\ OnTable(s) /\ d = HomeDb(catalog, s)
            => catalog.dbs[d] = OnTables(Told(d, MaxClock), s).tables

TellInv(h) ==
  IF thread[h] # Idle /\ thread[h].at = "journal"
    THEN Pending(thread[h].stmt, thread[h].changed)
    ELSE \A d \in Created(catalog) \ offLog : InStep(d)

-----------------------------------------------------------------------------
(* One record of a replay.                                                  *)
LEMMA JournaledFacts ==
  ASSUME EngineAssumption, NEW s \in Journaled
  PROVE  /\ s \in Statements /\ Executable(s)
         /\ s.op \notin {"use", "select", "revert"}
         /\ s.op \in {"create_database", "drop_database"} => s.db \in Dbs
         /\ s.op \notin {"create_database", "drop_database"} => OnTable(s)
BY DEF EngineAssumption, Journaled, Executable, IsStatement, is_mutating, OnTable

LEMMA CurrentFacts ==
  ASSUME EngineAssumption, NEW cat, CatalogOK(cat)
  PROVE  Current(cat) = cat.current /\ Current(cat) \in Created(cat) \cup {NoDb} /\ NoDb \notin Created(cat)
BY DEF EngineAssumption, CatalogOK, Current

ReplayOK(p) ==
  /\ p = [res |-> p.res, gone |-> p.gone, freed |-> p.freed]
  /\ CatalogOK(p.res.cat)
  /\ p.res.ok \in BOOLEAN /\ p.gone \in BOOLEAN /\ p.freed \in BOOLEAN
  /\ p.freed => p.gone

LEMMA ReplayStartOK ==
  ASSUME NEW cat, CatalogOK(cat), NEW p, p = ReplayStart(cat)
  PROVE  ReplayOK(p) /\ p.res.cat = cat /\ p.res.ok = TRUE /\ p.gone = FALSE /\ p.freed = FALSE
<1> DEFINE done == [cat |-> cat, ok |-> TRUE]
<1>1. p = [res |-> done, gone |-> FALSE, freed |-> FALSE]
  BY DEF ReplayStart, Done
<1>2. done.cat = cat /\ done.ok = TRUE
  OBVIOUS
<1> HIDE DEF done
<1>3. p.res = done /\ p.gone = FALSE /\ p.freed = FALSE
  BY <1>1
<1>4. p = [res |-> p.res, gone |-> p.gone, freed |-> p.freed]
  BY <1>1
<1>5. ReplayOK(p)
  BY <1>2, <1>3, <1>4 DEF ReplayOK
<1> QED BY <1>2, <1>3, <1>5

(* A record is not looked at, passed over, or executed.                     *)
LEMMA ReplayRecordEffect ==
  ASSUME NEW p, ReplayOK(p), NEW rec, NEW d, NEW ts, NEW memory,
         NEW r, Executed(p.res.cat, rec.stmt, r),
         NEW n, n = ReplayRecord(p, rec, d, ts, memory)
  PROVE  \/ ~p.res.ok /\ n = p
         \/ /\ p.res.ok /\ (p.gone \/ ~InTime(rec, ts))
            /\ n = [res |-> p.res, gone |-> p.gone, freed |-> p.gone]
         \/ /\ p.res.ok /\ InTime(rec, ts)
            /\ \E gone \in BOOLEAN :
                 /\ n = [res |-> r, gone |-> gone, freed |-> p.gone]
                 /\ gone <=> p.gone \/ (r.ok /\ rec.stmt.op = "drop_database" /\ rec.stmt.db = d)
<1> DEFINE drops == p.gone \/ (r.ok /\ rec.stmt.op = "drop_database" /\ rec.stmt.db = d)
           q == [p EXCEPT !.freed = p.gone]
<1>1. q = [res |-> p.res, gone |-> p.gone, freed |-> p.gone]
  BY DEF ReplayOK
<1>2. n = IF ~p.res.ok THEN p
          ELSE IF p.gone /\ memory = "overwritten" THEN q
          ELSE IF ~InTime(rec, ts) THEN q
          ELSE [q EXCEPT !.res = r, !.gone = drops]
  BY Zenon DEF ReplayRecord, Executed
<1>3. PICK gone \in BOOLEAN : gone <=> drops
  <2>1. drops \in BOOLEAN
    OBVIOUS
  <2> HIDE DEF drops
  <2> QED BY <2>1
<1>4. gone = drops
  <2>1. drops \in BOOLEAN
    OBVIOUS
  <2> HIDE DEF drops
  <2> QED BY <1>3, <2>1
<1>5. CASE ~p.res.ok
  BY <1>2, <1>5
<1>6. CASE p.res.ok /\ ((p.gone /\ memory = "overwritten") \/ ~InTime(rec, ts))
  <2> HIDE DEF q, drops
  <2> QED BY <1>1, <1>2, <1>6
<1>7. CASE p.res.ok /\ ~(p.gone /\ memory = "overwritten") /\ InTime(rec, ts)
  <2> HIDE DEF q, drops
  <2>1. n = [q EXCEPT !.res = r, !.gone = gone]
    BY <1>2, <1>4, <1>7
  <2>2. n = [res |-> r, gone |-> gone, freed |-> p.gone]
    BY <1>1, <2>1
  <2> QED BY <1>3, <1>7, <2>2 DEF drops
<1> QED BY <1>5, <1>6, <1>7

LEMMA ReplayRecordOK ==
  ASSUME EngineAssumption, NEW p, ReplayOK(p), NEW rec \in Records, NEW d, NEW ts, NEW memory,
         NEW n, n = ReplayRecord(p, rec, d, ts, memory)
  PROVE  ReplayOK(n)
<1>1. PICK r : Executed(p.res.cat, rec.stmt, r)
  BY DEF Executed
<1>2. CatalogOK(r.cat) /\ r.ok \in BOOLEAN
  <2>1. Executable(rec.stmt)
    BY JournaledFacts DEF Records
  <2> QED BY <1>1, <2>1, ExecutedOK DEF ReplayOK
<1>3. CASE n = p
  BY <1>3
<1>4. CASE n = [res |-> p.res, gone |-> p.gone, freed |-> p.gone]
  BY <1>4 DEF ReplayOK
<1>5. ASSUME NEW gone \in BOOLEAN, p.gone => gone, n = [res |-> r, gone |-> gone, freed |-> p.gone]
      PROVE ReplayOK(n)
  BY <1>2, <1>5 DEF ReplayOK
<1> QED BY <1>1, <1>3, <1>4, <1>5, ReplayRecordEffect

(* So is a replay as a whole.                                               *)
LEMMA ReplaysOK ==
  ASSUME EngineAssumption, NEW recs \in Seq(Records), NEW cat, CatalogOK(cat),
         NEW d, NEW ts, NEW memory, NEW f, IsReplay(f, recs, cat, d, ts, memory)
  PROVE  \A i \in 0 .. Len(recs) : ReplayOK(f[i])
<1> DEFINE S == {i \in 0 .. Len(recs) : ReplayOK(f[i])}
<1>1. Len(recs) \in Nat
  OBVIOUS
<1>2. 0 \in S
  <2>1. f[0] = ReplayStart(cat)
    BY DEF IsReplay
  <2>2. ReplayOK(f[0])
    BY <2>1, ReplayStartOK
  <2> QED BY <1>1, <2>2
<1>3. ASSUME NEW i \in 0 .. Len(recs) - 1, i \in S PROVE i + 1 \in S
  <2>1. i + 1 \in 1 .. Len(recs) /\ i + 1 - 1 = i /\ recs[i + 1] \in Records
    BY <1>1
  <2>2. f[i + 1] = ReplayRecord(f[i], recs[i + 1], d, ts, memory)
    BY <2>1 DEF IsReplay
  <2>3. ReplayOK(f[i + 1])
    BY <1>3, <2>1, <2>2, ReplayRecordOK
  <2> QED BY <1>1, <2>1, <2>3
<1> HIDE DEF S
<1>4. 0 .. Len(recs) \subseteq S
  BY <1>1, <1>2, <1>3, UpTo
<1> QED BY <1>4 DEF S

-----------------------------------------------------------------------------
(* The invariant, action by action.                                         *)
LEMMA ThreadMoves ==
  ASSUME EngineInv, NEW t \in Threads, NEW x, thread' = [thread EXCEPT ![t] = x]
  PROVE  /\ thread'[t] = x
         /\ \A u \in Threads \ {t} : thread'[u] = thread[u]
         /\ thread' = [u \in Threads |-> thread'[u]]
         /\ ThreadOK(t)' => \A u \in Threads : ThreadOK(u)'
<1>1. thread = [u \in Threads |-> thread[u]]
  BY DEF EngineInv
<1>2. /\ thread'[t] = x /\ \A u \in Threads \ {t} : thread'[u] = thread[u]
      /\ thread' = [u \in Threads |-> thread'[u]]
  BY <1>1
<1>3. ASSUME NEW u \in Threads \ {t} PROVE ThreadOK(u)'
  <2>1. ThreadOK(u)
    BY DEF EngineInv
  <2> QED BY <1>2, <2>1 DEF ThreadOK, Journaled, Idle, is_mutating
<1> QED BY <1>2, <1>3

LEMMA WriterCount ==
  ASSUME EngineAssumption
  PROVE  /\ IsFiniteSet(Threads) /\ IsFiniteSet(Writers) /\ Cardinality(Writers) \in Nat
         /\ MaxClock \in Nat
BY FS_Subset, FS_CardinalityType DEF EngineAssumption, Writers

(* A thread that ends its statement gives its place up.                     *)
LEMMA WriterLeaves ==
  ASSUME EngineAssumption, EngineInv, NEW t \in Threads, NEW x,
         thread' = [thread EXCEPT ![t] = x], x = Idle \/ ~is_mutating(x.stmt)
  PROVE  /\ Cardinality(Writers') \in Nat
         /\ t \notin Writers => Cardinality(Writers') = Cardinality(Writers)
         /\ t \in Writers => Cardinality(Writers') = Cardinality(Writers) - 1
<1>1. Writers' = Writers \ {t}
  BY ThreadMoves DEF Writers, is_mutating, Idle
<1>2. ASSUME NEW W, IsFiniteSet(W)
      PROVE  /\ Cardinality(W) \in Nat /\ Cardinality(W \ {t}) \in Nat
             /\ t \notin W => Cardinality(W \ {t}) = Cardinality(W)
             /\ t \in W => Cardinality(W \ {t}) = Cardinality(W) - 1
  BY <1>2, FS_RemoveElement, FS_CardinalityType
<1> QED BY <1>1, <1>2, WriterCount

LEMMA WriterStays ==
  ASSUME EngineAssumption, EngineInv, NEW t \in Threads, NEW x,
         thread' = [thread EXCEPT ![t] = x], x # Idle, is_mutating(x.stmt)
  PROVE  /\ Cardinality(Writers') \in Nat
         /\ t \notin Writers => Cardinality(Writers') = Cardinality(Writers) + 1
         /\ t \in Writers => Cardinality(Writers') = Cardinality(Writers)
<1>1. Writers' = Writers \cup {t}
  <2>1. thread'[t] = x /\ \A u \in Threads \ {t} : thread'[u] = thread[u]
    BY ThreadMoves
  <2>2. \A u \in Threads : u \in Writers' <=> thread'[u] # Idle /\ is_mutating(thread'[u].stmt)
    BY DEF Writers, Idle, is_mutating
  <2>3. \A u \in Threads : u \in Writers <=> thread[u] # Idle /\ is_mutating(thread[u].stmt)
    BY DEF Writers
  <2>4. t \in Writers'
    BY <2>1, <2>2
  <2>5. \A u \in Threads \ {t} : u \in Writers' <=> u \in Writers
    BY <2>1, <2>2, <2>3
  <2>6. Writers' \subseteq Threads /\ Writers \subseteq Threads
    BY DEF Writers
  <2> QED BY <2>4, <2>5, <2>6
<1>2. ASSUME NEW W, IsFiniteSet(W)
      PROVE  /\ Cardinality(W) \in Nat /\ Cardinality(W \cup {t}) \in Nat
             /\ t \notin W => Cardinality(W \cup {t}) = Cardinality(W) + 1
             /\ t \in W => Cardinality(W \cup {t}) = Cardinality(W)
  BY <1>2, FS_AddElement, FS_CardinalityType
<1> QED BY <1>1, <1>2, WriterCount

LEMMA InitInv ==
  ASSUME EngineAssumption, EngineInit
  PROVE  EngineInv
<1>1. CatalogOK(catalog)
  <2>1. catalog.dbs = [d \in {} |-> {}] /\ catalog.current = NoDb
        /\ catalog = [dbs |-> catalog.dbs, current |-> catalog.current]
    BY DEF EngineInit, EmptyCatalog
  <2> QED BY <2>1 DEF CatalogOK, Created
<1>2. JournalOK
  BY DEF EngineInit, JournalOK
<1>3. Writers = {}
  BY DEF EngineInit, Writers, Idle
<1>4. clock \in Nat /\ clock + Cardinality(Writers) <= MaxClock
  BY <1>3, FS_EmptySet DEF EngineInit, EngineAssumption
<1>5. thread = [t \in Threads |-> thread[t]] /\ \A t \in Threads : ThreadOK(t)
  BY DEF EngineInit, ThreadOK
<1>6. reply \in [Threads -> {"none", "ok", "err"}] /\ offLog \subseteq Dbs /\ lost \in Nat
  BY DEF EngineInit
<1> QED BY <1>1, <1>2, <1>4, <1>5, <1>6 DEF EngineInv

(* A step that leaves the journals and the clock alone leaves them in order. *)
LEMMA JournalRests ==
  ASSUME JournalOK, UNCHANGED <<journal, clock>>
  PROVE  JournalOK'
BY DEF JournalOK, Records, Journaled, is_mutating

LEMMA ReceiveInv ==
  ASSUME EngineAssumption, EngineInv, NEW t \in Threads, NEW s \in Statements, Receive(t, s)
  PROVE  EngineInv'
<1> DEFINE x == [at |-> "exec", stmt |-> s, dbn |-> Current(catalog), changed |-> {}]
<1>1. thread' = [thread EXCEPT ![t] = x] /\ thread[t] = Idle
  BY DEF Receive
<1>2. x # Idle /\ x.stmt = s /\ x.at = "exec"
  BY DEF Idle
<1>3. ThreadOK(t)'
  <2>1. Current(catalog) \in Dbs \cup {NoDb}
    BY CurrentFacts DEF EngineInv, CatalogOK
  <2>2. x \in [at : {"exec", "journal"}, stmt : Statements, dbn : Dbs \cup {NoDb}, changed : SUBSET Dbs]
    BY <2>1
  <2> HIDE DEF x
  <2>3. thread'[t] = x
    BY <1>1, ThreadMoves
  <2> QED BY <1>2, <2>2, <2>3 DEF ThreadOK
<1> HIDE DEF x
<1>4. thread' = [u \in Threads |-> thread'[u]] /\ \A u \in Threads : ThreadOK(u)'
  BY <1>1, <1>3, ThreadMoves
<1>5. clock' = clock /\ clock + Cardinality(Writers') <= MaxClock
  <2> DEFINE busy == {u \in Threads : thread[u] # Idle}
  <2>1. t \notin Writers /\ Writers \subseteq busy
    BY <1>1 DEF Writers
  <2>2. Cardinality(Writers) <= Cardinality(busy) /\ Cardinality(busy) \in Nat
    BY <2>1, WriterCount, FS_Subset, FS_CardinalityType
  <2>3. is_mutating(s) => clock + Cardinality(busy) < MaxClock
    BY DEF Receive
  <2> HIDE DEF busy
  <2>4. clock \in Nat /\ clock + Cardinality(Writers) <= MaxClock
    BY DEF EngineInv
  <2>5. CASE is_mutating(s)
    <3>1. Cardinality(Writers') = Cardinality(Writers) + 1
      BY <1>1, <1>2, <2>1, <2>5, WriterStays
    <3> QED BY <2>2, <2>3, <2>4, <2>5, <3>1, WriterCount DEF Receive
  <2>6. CASE ~is_mutating(s)
    <3>1. Cardinality(Writers') = Cardinality(Writers)
      BY <1>1, <1>2, <2>1, <2>6, WriterLeaves
    <3> QED BY <2>4, <3>1 DEF Receive
  <2> QED BY <2>5, <2>6
<1>6. JournalOK'
  BY JournalRests DEF Receive, EngineInv
<1>7. CatalogOK(catalog')
  BY DEF Receive, EngineInv
<1>8. UNCHANGED <<catalog, clock, lost, reply, offLog>>
  BY DEF Receive
<1> QED BY <1>4, <1>5, <1>6, <1>7, <1>8 DEF EngineInv

LEMMA BusyThread ==
  ASSUME EngineInv, NEW t \in Threads, thread[t].at \in {"exec", "journal"}
  PROVE  /\ thread[t] # Idle
         /\ thread[t] = [at |-> thread[t].at, stmt |-> thread[t].stmt,
                         dbn |-> thread[t].dbn, changed |-> thread[t].changed]
         /\ thread[t].stmt \in Statements
         /\ thread[t].dbn \in Dbs \cup {NoDb}
         /\ thread[t].changed \subseteq Dbs
         /\ thread[t].at = "journal" => thread[t].stmt \in Journaled
<1>1. thread[t] # Idle
  BY DEF Idle
<1>2. /\ thread[t] \in [at : {"exec", "journal"}, stmt : Statements,
                        dbn : Dbs \cup {NoDb}, changed : SUBSET Dbs]
      /\ thread[t].at = "journal" => thread[t].stmt \in Journaled
  BY <1>1 DEF EngineInv, ThreadOK
<1> QED BY <1>1, <1>2

LEMMA OnToJournal ==
  ASSUME NEW old, NEW c, old = [at |-> old.at, stmt |-> old.stmt, dbn |-> old.dbn, changed |-> old.changed]
  PROVE  [old EXCEPT !.at = "journal", !.changed = c]
         = [at |-> "journal", stmt |-> old.stmt, dbn |-> old.dbn, changed |-> c]
<1>1. ASSUME NEW o, NEW a, NEW s, NEW b, NEW e, o = [at |-> a, stmt |-> s, dbn |-> b, changed |-> e]
      PROVE  [o EXCEPT !.at = "journal", !.changed = c]
             = [at |-> "journal", stmt |-> s, dbn |-> b, changed |-> c]
  <2> DEFINE m == [o EXCEPT !.at = "journal"]
  <2>1. m = [at |-> "journal", stmt |-> s, dbn |-> b, changed |-> e]
    BY <1>1
  <2>2. [o EXCEPT !.at = "journal", !.changed = c] = [m EXCEPT !.changed = c]
    BY Zenon
  <2> HIDE DEF m
  <2>3. [m EXCEPT !.changed = c] = [at |-> "journal", stmt |-> s, dbn |-> b, changed |-> c]
    BY <2>1
  <2> QED BY <2>2, <2>3
<1> QED BY <1>1, Zenon

LEMMA ExecFacts ==
  ASSUME EngineAssumption, EngineInv, NEW t \in Threads, Exec(t),
         NEW s, s = thread[t].stmt, NEW r, Executed(catalog, s, r),
         NEW c, c = Changed(catalog, r.cat)
  PROVE  /\ thread[t].at = "exec" /\ s \in Statements /\ Executable(s)
         /\ catalog' = r.cat /\ CatalogOK(r.cat) /\ r.ok \in BOOLEAN
         /\ c \subseteq Dbs
         /\ thread' = [thread EXCEPT ![t] =
              IF r.ok /\ is_mutating(s)
                THEN [at |-> "journal", stmt |-> s, dbn |-> thread[t].dbn, changed |-> c]
                ELSE Idle]
         /\ offLog' = IF ~r.ok THEN offLog \cup c
                      ELSE IF s.op = "create_database" THEN offLog \ {s.db} ELSE offLog
         /\ reply' = [reply EXCEPT ![t] = IF r.ok THEN "ok" ELSE "err"]
         /\ UNCHANGED <<journal, clock, freed, lost>>
<1>1. thread[t].at = "exec" /\ s.op # "revert"
  BY DEF Exec
<1>2. s \in Statements /\ Executable(s)
  BY <1>1, BusyThread DEF EngineAssumption, Executable
<1>3. CatalogOK(r.cat) /\ r.ok \in BOOLEAN
  BY <1>2, ExecutedOK DEF EngineInv
<1>4. c \subseteq Dbs
  BY <1>3 DEF Changed, CatalogOK
<1>5. /\ catalog' = r.cat
      /\ thread' = [thread EXCEPT ![t] =
           IF r.ok /\ is_mutating(s) THEN [@ EXCEPT !.at = "journal", !.changed = c] ELSE Idle]
      /\ offLog' = IF ~r.ok THEN offLog \cup c
                   ELSE IF s.op = "create_database" THEN offLog \ {s.db} ELSE offLog
      /\ reply' = [reply EXCEPT ![t] = IF r.ok THEN "ok" ELSE "err"]
      /\ UNCHANGED <<journal, clock, freed, lost>>
  BY Zenon DEF Exec, Answer, Executed
<1>6. [thread[t] EXCEPT !.at = "journal", !.changed = c]
      = [at |-> "journal", stmt |-> s, dbn |-> thread[t].dbn, changed |-> c]
  BY <1>1, BusyThread, OnToJournal
<1>7. thread' = [thread EXCEPT ![t] =
        IF r.ok /\ is_mutating(s)
          THEN [at |-> "journal", stmt |-> s, dbn |-> thread[t].dbn, changed |-> c] ELSE Idle]
  BY <1>5, <1>6
<1> QED BY <1>1, <1>2, <1>3, <1>4, <1>5, <1>7

LEMMA ExecInv ==
  ASSUME EngineAssumption, EngineInv, NEW t \in Threads, Exec(t)
  PROVE  EngineInv'
<1> DEFINE s == thread[t].stmt
           r == exec_statement(catalog, s)
           c == Changed(catalog, r.cat)
           y == [at |-> "journal", stmt |-> s, dbn |-> thread[t].dbn, changed |-> c]
           x == IF r.ok /\ is_mutating(s) THEN y ELSE Idle
<1>1. /\ thread[t].at = "exec" /\ s \in Statements /\ Executable(s)
      /\ catalog' = r.cat /\ CatalogOK(r.cat) /\ r.ok \in BOOLEAN
      /\ c \subseteq Dbs
      /\ thread' = [thread EXCEPT ![t] = x]
      /\ offLog' = IF ~r.ok THEN offLog \cup c
                   ELSE IF s.op = "create_database" THEN offLog \ {s.db} ELSE offLog
      /\ reply' = [reply EXCEPT ![t] = IF r.ok THEN "ok" ELSE "err"]
      /\ UNCHANGED <<journal, clock, freed, lost>>
  BY ExecFacts DEF Executed
<1>2. /\ thread[t] # Idle /\ thread[t].dbn \in Dbs \cup {NoDb}
  BY <1>1, BusyThread
<1>3. y # Idle /\ y.stmt = s /\ y.at = "journal"
      /\ y \in [at : {"exec", "journal"}, stmt : Statements, dbn : Dbs \cup {NoDb}, changed : SUBSET Dbs]
  <2> HIDE DEF c, s
  <2> QED BY <1>1, <1>2 DEF Idle
<1> HIDE DEF r, c, y
<1>4. is_mutating(s) => s \in Journaled
  BY <1>1 DEF Journaled, Executable
<1>5. ThreadOK(t)'
  <2>1. thread'[t] = x
    BY <1>1, ThreadMoves
  <2>2. CASE r.ok /\ is_mutating(s)
    <3>1. thread'[t] = y
      BY <2>1, <2>2
    <3> HIDE DEF s, x
    <3> QED BY <1>3, <1>4, <2>2, <3>1 DEF ThreadOK, Journaled, is_mutating
  <2>3. CASE ~(r.ok /\ is_mutating(s))
    BY <2>1, <2>3 DEF ThreadOK
  <2> QED BY <2>2, <2>3
<1>6. thread' = [u \in Threads |-> thread'[u]] /\ \A u \in Threads : ThreadOK(u)'
  <2> HIDE DEF x
  <2> QED BY <1>1, <1>5, ThreadMoves
<1>7. clock \in Nat /\ clock + Cardinality(Writers') <= MaxClock
  <2>0. clock \in Nat /\ clock + Cardinality(Writers) <= MaxClock
    BY DEF EngineInv
  <2>1. CASE r.ok /\ is_mutating(s)
    <3>1. t \in Writers
      BY <1>2, <2>1 DEF Writers
    <3>2. thread' = [thread EXCEPT ![t] = y]
      BY <1>1, <2>1
    <3>3. Cardinality(Writers') = Cardinality(Writers)
      BY <1>3, <2>1, <3>1, <3>2, WriterStays
    <3> QED BY <2>0, <3>3
  <2>2. CASE ~(r.ok /\ is_mutating(s))
    <3>1. thread' = [thread EXCEPT ![t] = Idle]
      BY <1>1, <2>2
    <3>2. Cardinality(Writers') \in Nat /\ Cardinality(Writers') <= Cardinality(Writers)
      <4> HIDE DEF s, x
      <4>1. /\ Cardinality(Writers') \in Nat
            /\ t \notin Writers => Cardinality(Writers') = Cardinality(Writers)
            /\ t \in Writers => Cardinality(Writers') = Cardinality(Writers) - 1
        BY <3>1, WriterLeaves
      <4> QED BY <4>1, WriterCount
    <3> QED BY <2>0, <3>2, WriterCount
  <2> QED BY <2>1, <2>2
<1>8. JournalOK'
  BY <1>1, JournalRests DEF EngineInv
<1>9. offLog' \subseteq Dbs /\ reply' \in [Threads -> {"none", "ok", "err"}]
  BY <1>1 DEF EngineInv
<1>10. CatalogOK(catalog') /\ clock' = clock /\ lost' = lost /\ lost \in Nat
  BY <1>1 DEF EngineInv
<1> QED BY <1>6, <1>7, <1>8, <1>9, <1>10 DEF EngineInv

LEMMA AppendRecordInv ==
  ASSUME EngineAssumption, EngineInv, NEW t \in Threads, AppendRecord(t)
  PROVE  EngineInv'
<1> DEFINE jd == JournalDb(t)
           rec == [ts |-> clock + 1, stmt |-> thread[t].stmt]
<1>1. /\ thread[t].at = "journal" /\ jd # NoDb /\ clock' = clock + 1
      /\ journal' = [journal EXCEPT ![jd] = Append(@, rec)]
      /\ thread' = [thread EXCEPT ![t] = Idle]
      /\ offLog' = offLog \cup Astray(t)
      /\ UNCHANGED <<catalog, reply, lost>>
  BY DEF AppendRecord, Leave
<1>2. /\ thread[t] # Idle /\ thread[t].stmt \in Journaled
      /\ thread[t].dbn \in Dbs \cup {NoDb} /\ thread[t].changed \subseteq Dbs
  BY <1>1, BusyThread
<1>3. clock \in Nat /\ rec \in Records
  BY <1>2 DEF Records, EngineInv
<1>4. jd \in Dbs
  BY <1>1, <1>2, JournaledFacts, CurrentFacts DEF JournalDb, EngineInv, CatalogOK
<1>5. JournalOK'
  <2>1. journal \in [Dbs -> Seq(Records)]
    BY DEF EngineInv, JournalOK
  <2> HIDE DEF jd, rec
  <2>2. journal' \in [Dbs -> Seq(Records)]
    <3>1. Append(journal[jd], rec) \in Seq(Records)
      BY <1>3, <1>4, <2>1
    <3> QED BY <1>1, <2>1, <3>1
  <2>3. ASSUME NEW d \in Dbs, NEW i \in 1 .. Len(journal'[d]), NEW j \in 1 .. Len(journal'[d])
        PROVE  journal'[d][i].ts <= clock' /\ (i < j => journal'[d][i].ts < journal'[d][j].ts)
    <3> DEFINE js == journal[d]
    <3>0. js \in Seq(Records)
      BY <2>1
    <3>1. /\ \A k \in 1 .. Len(js) : js[k] \in Records /\ js[k].ts <= clock
          /\ \A k, l \in 1 .. Len(js) : k < l => js[k].ts < js[l].ts
      BY <3>0 DEF EngineInv, JournalOK
    <3>2. \A k \in 1 .. Len(js) : js[k].ts \in Nat
      BY <3>1 DEF Records
    <3>5. clock' = clock + 1
      BY <1>1
    <3> HIDE DEF js
    <3>3. CASE d # jd
      <4>1. journal'[d] = js
        BY <1>1, <2>1, <3>3 DEF js
      <4>2. i \in 1 .. Len(js) /\ j \in 1 .. Len(js)
        BY <4>1
      <4>3. js[i].ts <= clock /\ js[i].ts \in Nat /\ (i < j => js[i].ts < js[j].ts)
        BY <3>1, <3>2, <4>2
      <4> QED BY <1>3, <3>5, <4>1, <4>3
    <3>4. CASE d = jd
      <4>1. journal'[d] = Append(js, rec)
        BY <1>1, <1>4, <2>1, <3>4 DEF js
      <4>2. /\ Len(journal'[d]) = Len(js) + 1 /\ Len(js) \in Nat
            /\ journal'[d][Len(js) + 1] = rec
            /\ \A k \in 1 .. Len(js) : journal'[d][k] = js[k]
        BY <1>3, <3>0, <4>1
      <4>3. rec.ts = clock + 1
        BY DEF rec
      <4>4. CASE i = Len(js) + 1
        BY <1>1, <1>3, <2>3, <4>2, <4>3, <4>4
      <4>5. CASE i \in 1 .. Len(js) /\ j = Len(js) + 1
        <5>1. js[i].ts <= clock /\ js[i].ts \in Nat
          BY <3>1, <3>2, <4>5
        <5>2. journal'[d][i] = js[i] /\ journal'[d][j] = rec
          BY <4>2, <4>5
        <5> HIDE DEF rec
        <5> QED BY <1>3, <3>5, <4>3, <4>5, <5>1, <5>2
      <4>6. CASE i \in 1 .. Len(js) /\ j \in 1 .. Len(js)
        <5>1. js[i].ts <= clock /\ js[i].ts \in Nat /\ (i < j => js[i].ts < js[j].ts)
          BY <3>1, <3>2, <4>6
        <5>2. journal'[d][i] = js[i] /\ journal'[d][j] = js[j]
          BY <4>2, <4>6
        <5> QED BY <1>3, <3>5, <5>1, <5>2
      <4> QED BY <2>3, <4>2, <4>4, <4>5, <4>6
    <3> QED BY <3>3, <3>4
  <2>4. Records' = Records
    BY DEF Records, Journaled, is_mutating
  <2> QED BY <2>2, <2>3, <2>4 DEF JournalOK
<1>6. thread' = [u \in Threads |-> thread'[u]] /\ \A u \in Threads : ThreadOK(u)'
  <2>1. ThreadOK(t)'
    BY <1>1, ThreadMoves DEF ThreadOK
  <2> QED BY <1>1, <2>1, ThreadMoves
<1>7. clock' \in Nat /\ clock' + Cardinality(Writers') <= MaxClock
  <2>1. t \in Writers
    BY <1>2 DEF Writers, Journaled
  <2>2. Cardinality(Writers') = Cardinality(Writers) - 1
    BY <1>1, <2>1, WriterLeaves
  <2> QED BY <1>1, <1>3, <2>2, WriterCount DEF EngineInv
<1>8. offLog' \subseteq Dbs
  BY <1>1, <1>2 DEF Astray, EngineInv
<1> QED BY <1>1, <1>5, <1>6, <1>7, <1>8 DEF EngineInv

LEMMA SkipRecordInv ==
  ASSUME EngineAssumption, EngineInv, NEW t \in Threads, SkipRecord(t)
  PROVE  EngineInv'
<1>1. /\ thread[t].at = "journal"
      /\ thread' = [thread EXCEPT ![t] = Idle]
      /\ offLog' = offLog \cup Astray(t) \/ offLog' = offLog \cup thread[t].changed
      /\ UNCHANGED <<catalog, reply, journal, clock>>
      /\ lost' \in Nat
  BY DEF SkipRecord, Leave, EngineInv
<1>2. thread[t] # Idle /\ thread[t].stmt \in Journaled /\ thread[t].changed \subseteq Dbs
  BY <1>1, BusyThread
<1>3. JournalOK' /\ CatalogOK(catalog')
  BY <1>1, JournalRests DEF EngineInv
<1>4. thread' = [u \in Threads |-> thread'[u]] /\ \A u \in Threads : ThreadOK(u)'
  <2>1. ThreadOK(t)'
    BY <1>1, ThreadMoves DEF ThreadOK
  <2> QED BY <1>1, <2>1, ThreadMoves
<1>5. clock' \in Nat /\ clock' + Cardinality(Writers') <= MaxClock
  <2>1. t \in Writers
    BY <1>2 DEF Writers, Journaled
  <2>2. Cardinality(Writers') = Cardinality(Writers) - 1
    BY <1>1, <2>1, WriterLeaves
  <2> QED BY <1>1, <2>2, WriterCount DEF EngineInv
<1>6. offLog' \subseteq Dbs /\ reply' \in [Threads -> {"none", "ok", "err"}]
  BY <1>1, <1>2 DEF Astray, EngineInv
<1> QED BY <1>1, <1>3, <1>4, <1>5, <1>6 DEF EngineInv

(* A REVERT is refused, or it is the replay of the journal on a database    *)
(* that exists and has been emptied.                                         *)
Emptied(d) == SetDb(catalog, d, NoTables)

LEMMA EmptiedFacts ==
  ASSUME EngineAssumption, EngineInv, NEW d \in Created(catalog)
  PROVE  /\ d \in Dbs /\ CatalogOK(Emptied(d))
         /\ Emptied(d).current = catalog.current
         /\ Created(Emptied(d)) = Created(catalog)
         /\ Emptied(d).dbs[d] = NoTables
         /\ \A e \in Created(catalog) \ {d} : Emptied(d).dbs[e] = catalog.dbs[e]
<1>1. CatalogOK(catalog) /\ d \in Dbs
  BY DEF EngineInv, CatalogOK
<1>2. /\ Emptied(d).dbs = With(catalog.dbs, d, NoTables)
      /\ Emptied(d).current = catalog.current
      /\ Created(Emptied(d)) = Created(catalog)
  BY <1>1, SetDbFacts DEF Emptied, CatalogOK
<1>3. CatalogOK(Emptied(d))
  BY <1>1, SetDbOK, NoTablesOK DEF Emptied
<1>4. /\ With(catalog.dbs, d, NoTables)[d] = NoTables
      /\ \A e \in Created(catalog) \ {d} : With(catalog.dbs, d, NoTables)[e] = catalog.dbs[e]
  BY DEF With, Created
<1> QED BY <1>1, <1>2, <1>3, <1>4

Reverts(t, memory) ==
  LET d == Current(catalog)
      r == Replay(journal[d], Emptied(d), d, thread[t].stmt.ts, memory)
  IN /\ d \in Created(catalog)
     /\ catalog' = r.res.cat /\ freed' = r.freed
     /\ offLog' = offLog \cup Changed(catalog, r.res.cat)
     /\ reply' = [reply EXCEPT ![t] = IF r.res.ok THEN "ok" ELSE "err"]

LEMMA RevertFacts ==
  ASSUME EngineAssumption, EngineInv, NEW t \in Threads, Revert(t)
  PROVE  /\ thread[t].at = "exec" /\ thread[t].stmt.op = "revert"
         /\ thread' = [thread EXCEPT ![t] = Idle]
         /\ UNCHANGED <<journal, clock, lost>>
         /\ \/ /\ UNCHANGED <<catalog, offLog>> /\ freed' = FALSE
               /\ reply' = [reply EXCEPT ![t] = "err"]
            \/ \E memory \in {"intact", "overwritten"} : Reverts(t, memory)
<1> DEFINE s == thread[t].stmt
           d == Current(catalog)
<1>1. /\ thread[t].at = "exec" /\ s.op = "revert"
      /\ thread' = [thread EXCEPT ![t] = Idle]
      /\ UNCHANGED <<journal, clock, lost>>
  BY DEF Revert
<1>2. CASE s.table \notin TableNames(d) /\ Answer(t, FALSE) /\ freed' = FALSE /\ UNCHANGED <<catalog, offLog>>
  BY <1>1, <1>2 DEF Answer
<1>3. CASE /\ s.table \in TableNames(d)
           /\ \E memory \in {"intact", "overwritten"} :
                LET r == Replayed(d, s.ts, memory) IN
                /\ catalog' = r.res.cat /\ freed' = r.freed
                /\ offLog' = offLog \cup Changed(catalog, r.res.cat)
                /\ Answer(t, r.res.ok)
  <2>1. d \in Created(catalog)
    BY <1>3, CurrentFacts DEF TableNames, EngineInv
  <2>2. PICK memory \in {"intact", "overwritten"} : Reverts(t, memory)
    BY <1>3, <2>1, Zenon DEF Reverts, Replayed, Answer, Emptied
  <2> QED BY <1>1, <2>2
<1> QED BY <1>2, <1>3, Zenon DEF Revert

LEMMA RevertInv ==
  ASSUME EngineAssumption, EngineInv, NEW t \in Threads, Revert(t)
  PROVE  EngineInv'
<1>1. /\ thread[t].at = "exec" /\ thread' = [thread EXCEPT ![t] = Idle]
      /\ UNCHANGED <<journal, clock, lost>>
  BY RevertFacts
<1>2. CatalogOK(catalog') /\ offLog' \subseteq Dbs /\ reply' \in [Threads -> {"none", "ok", "err"}]
  <2>1. CASE UNCHANGED <<catalog, offLog>> /\ reply' = [reply EXCEPT ![t] = "err"]
    BY <2>1 DEF EngineInv
  <2>2. ASSUME NEW memory \in {"intact", "overwritten"}, Reverts(t, memory)
        PROVE  CatalogOK(catalog') /\ offLog' \subseteq Dbs /\ reply' \in [Threads -> {"none", "ok", "err"}]
    <3> DEFINE d == Current(catalog)
               r == Replay(journal[d], Emptied(d), d, thread[t].stmt.ts, memory)
    <3>1. /\ d \in Created(catalog) /\ catalog' = r.res.cat
          /\ offLog' = offLog \cup Changed(catalog, r.res.cat)
          /\ reply' = [reply EXCEPT ![t] = IF r.res.ok THEN "ok" ELSE "err"]
      BY <2>2, Zenon DEF Reverts
    <3>2. d \in Dbs /\ CatalogOK(Emptied(d))
      BY <3>1, EmptiedFacts
    <3>3. journal[d] \in Seq(Records) /\ Len(journal[d]) \in Nat
      BY <3>2 DEF EngineInv, JournalOK
    <3>4. PICK f : /\ IsReplay(f, journal[d], Emptied(d), d, thread[t].stmt.ts, memory)
                   /\ r = f[Len(journal[d])]
      BY <3>3, ReplaySteps
    <3> HIDE DEF r, d
    <3>5. ReplayOK(r)
      <4>1. Len(journal[d]) \in 0 .. Len(journal[d])
        BY <3>3
      <4> QED BY <3>2, <3>3, <3>4, <4>1, ReplaysOK
    <3>6. CatalogOK(catalog') /\ Changed(catalog, r.res.cat) \subseteq Dbs
      BY <3>1, <3>5 DEF ReplayOK, Changed, CatalogOK
    <3> QED BY <3>1, <3>6 DEF EngineInv
  <2> QED BY <2>1, <2>2, RevertFacts
<1>3. JournalOK' /\ lost' \in Nat
  BY <1>1, JournalRests DEF EngineInv
<1>4. thread' = [u \in Threads |-> thread'[u]] /\ \A u \in Threads : ThreadOK(u)'
  <2>1. ThreadOK(t)'
    BY <1>1, ThreadMoves DEF ThreadOK
  <2> QED BY <1>1, <2>1, ThreadMoves
<1>5. clock' \in Nat /\ clock' + Cardinality(Writers') <= MaxClock
  <2>1. /\ Cardinality(Writers') \in Nat
        /\ t \notin Writers => Cardinality(Writers') = Cardinality(Writers)
        /\ t \in Writers => Cardinality(Writers') = Cardinality(Writers) - 1
    BY <1>1, WriterLeaves
  <2> QED BY <1>1, <2>1, WriterCount DEF EngineInv
<1> QED BY <1>2, <1>3, <1>4, <1>5 DEF EngineInv

LEMMA CrashInv ==
  ASSUME EngineAssumption, EngineInv, Crash
  PROVE  EngineInv'
<1>1. /\ catalog' = EmptyCatalog /\ thread' = [t \in Threads |-> Idle]
      /\ reply' = [t \in Threads |-> "none"] /\ UNCHANGED <<journal, clock, offLog, lost>>
  BY DEF Crash
<1>2. CatalogOK(catalog')
  <2>1. EmptyCatalog.dbs = [d \in {} |-> {}] /\ EmptyCatalog.current = NoDb
        /\ EmptyCatalog = [dbs |-> EmptyCatalog.dbs, current |-> EmptyCatalog.current]
    BY DEF EmptyCatalog
  <2> QED BY <1>1, <2>1 DEF CatalogOK, Created
<1>3. JournalOK'
  BY <1>1, JournalRests DEF EngineInv
<1>4. Writers' = {}
  BY <1>1 DEF Writers, Idle
<1>5. clock' \in Nat /\ clock' + Cardinality(Writers') <= MaxClock
  BY <1>1, <1>4, FS_EmptySet, WriterCount DEF EngineInv
<1>6. thread' = [t \in Threads |-> thread'[t]] /\ \A t \in Threads : ThreadOK(t)'
  BY <1>1 DEF ThreadOK
<1>7. reply' \in [Threads -> {"none", "ok", "err"}] /\ offLog' \subseteq Dbs /\ lost' \in Nat
  BY <1>1 DEF EngineInv
<1> QED BY <1>2, <1>3, <1>5, <1>6, <1>7 DEF EngineInv

LEMMA StepInv ==
  ASSUME EngineAssumption, EngineInv, [EngineNext]_engineVars
  PROVE  EngineInv'
<1>1. CASE UNCHANGED engineVars
  BY <1>1 DEF engineVars, EngineInv, JournalOK, Records, Journaled, is_mutating, ThreadOK, Writers, Idle
<1>2. ASSUME NEW t \in Threads, NEW s \in Statements, Receive(t, s) PROVE EngineInv'
  BY <1>2, ReceiveInv
<1>3. ASSUME NEW t \in Threads, Exec(t) PROVE EngineInv'
  BY <1>3, ExecInv
<1>4. ASSUME NEW t \in Threads, Revert(t) PROVE EngineInv'
  BY <1>4, RevertInv
<1>5. ASSUME NEW t \in Threads, AppendRecord(t) PROVE EngineInv'
  BY <1>5, AppendRecordInv
<1>6. ASSUME NEW t \in Threads, SkipRecord(t) PROVE EngineInv'
  BY <1>6, SkipRecordInv
<1>7. CASE Crash
  BY <1>7, CrashInv
<1> QED BY <1>1, <1>2, <1>3, <1>4, <1>5, <1>6, <1>7 DEF EngineNext

LEMMA Invariance == EngineSpec => []EngineInv
<1>1. EngineInit => EngineInv
  BY EngineAssumption, InitInv
<1>2. EngineInv /\ [EngineNext]_engineVars => EngineInv'
  BY EngineAssumption, StepInv
<1> QED BY <1>1, <1>2, PTL DEF EngineSpec

(* Catalog, journals' clock, threads and replies stay within their types, so *)
(* every database named has tables made of its own keys: Catalog,            *)
(* Executor::execute and Journal::append.                                    *)
THEOREM Typing == EngineSpec => []EngineTypeOK
<1>1. EngineInv => EngineTypeOK
  <2> SUFFICES ASSUME EngineInv PROVE EngineTypeOK
    OBVIOUS
  <2>1. /\ Created(catalog) \subseteq Dbs /\ catalog.current \in Dbs \cup {NoDb}
        /\ \A d \in Created(catalog) : TablesOK(catalog.dbs[d])
    BY DEF EngineInv, CatalogOK
  <2>2. \A d \in Created(catalog) : \A tb \in DOMAIN catalog.dbs[d] :
          tb \in Tables /\ catalog.dbs[d][tb] \subseteq Keys
    BY <2>1 DEF TablesOK
  <2>3. clock \in 0 .. MaxClock
    BY EngineAssumption, WriterCount DEF EngineInv
  <2>4. \A t \in Threads : thread[t] = Idle \/ thread[t].stmt \in Statements
    BY DEF EngineInv, ThreadOK
  <2>5. reply \in [Threads -> {"none", "ok", "err"}] /\ offLog \subseteq Dbs
    BY DEF EngineInv
  <2> QED BY <2>1, <2>2, <2>3, <2>4, <2>5 DEF EngineTypeOK
<1> QED BY <1>1, Invariance, PTL

(* The current database is an existing one or none, whatever statements,     *)
(* REVERTs and restarts went before: Catalog::current and drop_database.     *)
THEOREM CurrentIsThere == EngineSpec => []CurrentExists
<1>1. EngineInv => CurrentExists
  BY DEF EngineInv, CatalogOK, CurrentExists
<1> QED BY <1>1, Invariance, PTL

-----------------------------------------------------------------------------
(* A REVERT that answers "reverted".                                        *)
LEMMA RevertOfThread ==
  ASSUME EngineInv, [EngineNext]_engineVars, NEW t \in Threads, NEW ok \in BOOLEAN, RevertAnswered(t, ok)
  PROVE  Revert(t)
<1>1. /\ thread[t] # Idle /\ thread[t].at = "exec" /\ thread[t].stmt.op = "revert"
      /\ thread'[t] = Idle /\ reply'[t] \in {"ok", "err"}
  BY DEF RevertAnswered
<1>2. CASE UNCHANGED engineVars
  BY <1>1, <1>2 DEF engineVars
<1>3. ASSUME NEW u \in Threads, NEW s \in Statements, Receive(u, s) PROVE FALSE
  <2>1. thread'[t] = thread[t]
    BY <1>1, <1>3, ThreadMoves DEF Receive
  <2> QED BY <1>1, <2>1
<1>4. ASSUME NEW u \in Threads, u # t, \E x : thread' = [thread EXCEPT ![u] = x] PROVE FALSE
  <2>1. thread'[t] = thread[t]
    BY <1>4, ThreadMoves
  <2> QED BY <1>1, <2>1
<1>5. ASSUME NEW u \in Threads, Exec(u) PROVE FALSE
  BY <1>1, <1>4, <1>5 DEF Exec
<1>6. ASSUME NEW u \in Threads, AppendRecord(u) \/ SkipRecord(u) PROVE FALSE
  <2>1. thread[u].at = "journal" /\ thread' = [thread EXCEPT ![u] = Idle]
    BY <1>6 DEF AppendRecord, SkipRecord, Leave
  <2> QED BY <1>1, <1>4, <2>1
<1>7. ASSUME NEW u \in Threads, Revert(u) PROVE u = t
  BY <1>4, <1>7 DEF Revert
<1>8. CASE Crash
  BY <1>1, <1>8 DEF Crash
<1> QED BY <1>2, <1>3, <1>5, <1>6, <1>7, <1>8 DEF EngineNext

(* As long as the replay of d's journal succeeds and d is not gone, it has   *)
(* d's tables where the journal's own account has them.                      *)
InReplay(p, tables, d) ==
  p.res.ok /\ ~p.freed =>
    IF p.gone THEN d \notin Created(p.res.cat)
    ELSE /\ p.res.cat.current = d /\ d \in Created(p.res.cat)
         /\ p.res.cat.dbs[d] = tables

LEMMA TellRecordCases ==
  ASSUME NEW rec \in Records, NEW ts \in Int, NEW d, NEW tables,
         NEW s, s = rec.stmt, NEW told, told = TellRecord(tables, rec, d, ts)
  PROVE  /\ ~InTime(rec, ts) => told = tables
         /\ InTime(rec, ts) /\ s.op \in {"create_database", "drop_database"}
              => told = IF s.db = d THEN NoTables ELSE tables
         /\ InTime(rec, ts) /\ s.op \notin {"create_database", "drop_database"}
              => told = IF s.db \in {NoDb, d} THEN OnTables(tables, s).tables ELSE tables
<1>1. rec.ts \in Nat
  BY DEF Records
<1>2. CASE ~InTime(rec, ts)
  <2>1. rec.ts > ts /\ ~(rec.ts <= ts)
    BY <1>1, <1>2 DEF InTime
  <2> QED BY <1>2, <2>1 DEF TellRecord
<1>3. CASE InTime(rec, ts)
  <2>1. rec.ts <= ts /\ ~(rec.ts > ts)
    BY <1>1, <1>3 DEF InTime
  <2>2. CASE s.op \in {"create_database", "drop_database"}
    BY <1>3, <2>1, <2>2 DEF TellRecord
  <2>3. CASE s.op \notin {"create_database", "drop_database"}
    BY <1>3, <2>1, <2>3 DEF TellRecord
  <2> QED BY <2>2, <2>3
<1> QED BY <1>2, <1>3

(* What a record executed with success does to the current database.        *)
CurrentAfter(cat, s, r, d) ==
  /\ s.op = "drop_database" /\ s.db = d => d \notin Created(r.cat)
  /\ ~(s.op = "drop_database" /\ s.db = d)
       => r.cat.current = d /\ d \in Created(r.cat)
  /\ s.op = "create_database" => s.db # d /\ r.cat.dbs[d] = cat.dbs[d]
  /\ s.op = "drop_database" /\ s.db # d => r.cat.dbs[d] = cat.dbs[d]
  /\ s.op \notin {"create_database", "drop_database"} =>
       r.cat.dbs[d] = IF s.db \in {NoDb, d} THEN OnTables(cat.dbs[d], s).tables ELSE cat.dbs[d]

LEMMA EffectOnCurrent ==
  ASSUME EngineAssumption, NEW cat, CatalogOK(cat), NEW d \in Created(cat), Current(cat) = d,
         NEW s \in Journaled, NEW r, Executed(cat, s, r), r.ok = TRUE
  PROVE  CurrentAfter(cat, s, r, d)
<1>0. cat.current = d /\ d # NoDb
  BY CurrentFacts DEF EngineAssumption
<1>1. CASE s.op = "create_database"
  <2>1. s.db \in Dbs
    BY <1>1, JournaledFacts
  <2>2. /\ s.db \notin Created(cat) /\ Gains(cat, r.cat, s.db)
        /\ r.cat.current = cat.current /\ Same(Created(cat), cat, r.cat)
    BY <1>1, <2>1, CreateEffect
  <2> QED BY <1>0, <1>1, <2>2 DEF Gains, Same, CurrentAfter
<1>2. CASE s.op = "drop_database"
  <2>1. s.db \in Dbs
    BY <1>2, JournaledFacts
  <2>2. /\ Loses(cat, r.cat, s.db) /\ Same(Created(r.cat), cat, r.cat)
        /\ r.cat.current = (IF cat.current = s.db THEN NoDb ELSE cat.current)
    BY <1>2, <2>1, DropEffect
  <2> QED BY <1>0, <1>2, <2>2 DEF Loses, Same, CurrentAfter
<1>3. CASE s.op \notin {"create_database", "drop_database"}
  <2>1. Executable(s) /\ s.op # "use"
    BY JournaledFacts
  <2>2. /\ HomeDb(cat, s) \in Created(cat) /\ Keeps(cat, r.cat) /\ r.cat.current = cat.current
        /\ r.cat.dbs[HomeDb(cat, s)] = OnTables(cat.dbs[HomeDb(cat, s)], s).tables
        /\ Same(Created(cat) \ {HomeDb(cat, s)}, cat, r.cat)
    BY <1>3, <2>1, TableEffect DEF EngineAssumption
  <2>3. HomeDb(cat, s) = d <=> s.db \in {NoDb, d}
    BY <1>0 DEF HomeDb
  <2> QED BY <1>0, <1>3, <2>2, <2>3 DEF Keeps, Same, CurrentAfter
<1> QED BY <1>1, <1>2, <1>3

LEMMA InReplayStep ==
  ASSUME EngineAssumption, NEW p, ReplayOK(p), NEW rec \in Records, NEW d \in Dbs,
         NEW ts \in Int, NEW memory, NEW tables, InReplay(p, tables, d),
         NEW n, n = ReplayRecord(p, rec, d, ts, memory),
         NEW told, told = TellRecord(tables, rec, d, ts)
  PROVE  InReplay(n, told, d)
<1>1. PICK s, cat, r : s = rec.stmt /\ cat = p.res.cat /\ Executed(cat, s, r)
  BY DEF Executed
<1>2. \/ ~p.res.ok /\ n = p
      \/ n.res = p.res /\ n.gone = p.gone /\ n.freed = p.gone /\ (p.gone \/ ~InTime(rec, ts))
      \/ /\ p.res.ok /\ InTime(rec, ts) /\ n.res = r /\ n.freed = p.gone
         /\ n.gone <=> p.gone \/ (r.ok /\ s.op = "drop_database" /\ s.db = d)
  <2>1. ASSUME NEW gone \in BOOLEAN, n = [res |-> r, gone |-> gone, freed |-> p.gone]
        PROVE  n.res = r /\ n.freed = p.gone /\ n.gone = gone
    BY <2>1
  <2>2. ASSUME n = [res |-> p.res, gone |-> p.gone, freed |-> p.gone]
        PROVE  n.res = p.res /\ n.gone = p.gone /\ n.freed = p.gone
    BY <2>2
  <2> QED BY <1>1, <2>1, <2>2, ReplayRecordEffect
<1>3. CASE ~p.res.ok /\ n = p
  BY <1>3 DEF InReplay
<1>4. CASE n.res = p.res /\ n.gone = p.gone /\ n.freed = p.gone /\ (p.gone \/ ~InTime(rec, ts))
  <2>1. CASE p.gone
    BY <1>4, <2>1 DEF InReplay
  <2>2. CASE ~p.gone
    <3>1. told = tables
      BY <1>4, <2>2, TellRecordCases
    <3> QED BY <1>4, <2>2, <3>1 DEF InReplay, ReplayOK
  <2> QED BY <2>1, <2>2
<1>5. CASE /\ p.res.ok /\ InTime(rec, ts) /\ n.res = r /\ n.freed = p.gone
           /\ n.gone <=> p.gone \/ (r.ok /\ s.op = "drop_database" /\ s.db = d)
  <2>1. CASE ~r.ok \/ p.gone
    BY <1>5, <2>1 DEF InReplay
  <2>2. CASE r.ok /\ ~p.gone
    <3>1. CatalogOK(cat) /\ cat.current = d /\ d \in Created(cat) /\ cat.dbs[d] = tables
      BY <1>1, <1>5, <2>2 DEF InReplay, ReplayOK
    <3>2. Current(cat) = d /\ s \in Journaled /\ r.ok = TRUE
      <4>1. r.ok \in BOOLEAN
        BY <1>1, <3>1, ExecutedOK, JournaledFacts DEF Records
      <4> QED BY <1>1, <2>2, <3>1, <4>1, CurrentFacts DEF Records
    <3>5. CurrentAfter(cat, s, r, d)
      BY <1>1, <3>1, <3>2, EffectOnCurrent
    <3>3. CASE s.op = "drop_database" /\ s.db = d
      <4>1. d \notin Created(r.cat)
        BY <3>5, <3>3 DEF CurrentAfter
      <4> QED BY <1>5, <2>2, <3>3, <4>1 DEF InReplay
    <3>4. CASE ~(s.op = "drop_database" /\ s.db = d)
      <4>1. r.cat.current = d /\ d \in Created(r.cat)
        BY <3>5, <3>4 DEF CurrentAfter
      <4>2. r.cat.dbs[d] = told
        <5>1. CASE s.op \in {"create_database", "drop_database"}
          <6>1. s.db # d /\ r.cat.dbs[d] = cat.dbs[d]
            BY <3>5, <3>4, <5>1 DEF CurrentAfter
          <6>2. told = tables
            BY <1>1, <1>5, <5>1, <6>1, TellRecordCases
          <6> QED BY <3>1, <6>1, <6>2
        <5>2. CASE s.op \notin {"create_database", "drop_database"}
          <6>1. r.cat.dbs[d] = IF s.db \in {NoDb, d} THEN OnTables(cat.dbs[d], s).tables ELSE cat.dbs[d]
            BY <3>5, <5>2 DEF CurrentAfter
          <6>2. told = IF s.db \in {NoDb, d} THEN OnTables(tables, s).tables ELSE tables
            BY <1>1, <1>5, <5>2, TellRecordCases
          <6> QED BY <3>1, <6>1, <6>2
        <5> QED BY <5>1, <5>2
      <4> QED BY <1>5, <2>2, <3>4, <4>1, <4>2 DEF InReplay
    <3> QED BY <3>3, <3>4
  <2> QED BY <2>1, <2>2
<1> QED BY <1>2, <1>3, <1>4, <1>5

LEMMA RevertTold ==
  ASSUME EngineAssumption, EngineInv, NEW t \in Threads, Revert(t), reply'[t] = "ok",
         NEW d, d = Current(catalog), d \in Created(catalog'), ~freed'
  PROVE  catalog'.dbs[d] = Told(d, thread[t].stmt.ts)
<1> DEFINE ts == thread[t].stmt.ts
           js == journal[d]
<1>1. /\ thread[t].at = "exec" /\ thread[t].stmt.op = "revert"
      /\ reply \in [Threads -> {"none", "ok", "err"}]
  BY RevertFacts DEF EngineInv
<1>2. ts \in Int
  BY <1>1, BusyThread DEF EngineAssumption, IsStatement
<1>3. PICK memory \in {"intact", "overwritten"} : Reverts(t, memory)
  BY <1>1, RevertFacts
<1> DEFINE r == Replay(js, Emptied(d), d, ts, memory)
<1>4. d \in Created(catalog) /\ catalog' = r.res.cat /\ freed' = r.freed
      /\ reply' = [reply EXCEPT ![t] = IF r.res.ok THEN "ok" ELSE "err"]
  BY <1>3, Zenon DEF Reverts
<1>5. r.res.ok
  BY <1>1, <1>4
<1>6. /\ d \in Dbs /\ CatalogOK(Emptied(d)) /\ Emptied(d).current = d
      /\ d \in Created(Emptied(d)) /\ Emptied(d).dbs[d] = NoTables
  BY <1>4, EmptiedFacts, CurrentFacts DEF EngineInv
<1>7. js \in Seq(Records) /\ Len(js) \in Nat
  BY <1>6 DEF EngineInv, JournalOK
<1> HIDE DEF r, js, ts
<1>8. PICK f : IsReplay(f, js, Emptied(d), d, ts, memory) /\ r = f[Len(js)]
  BY <1>7, ReplaySteps DEF r
<1>9. PICK g : IsTelling(g, js, d, ts) /\ ToldBy(js, d, ts) = g[Len(js)]
  BY <1>7, TellingSteps
<1>10. \A i \in 0 .. Len(js) : ReplayOK(f[i])
  BY <1>6, <1>7, <1>8, ReplaysOK
<1> DEFINE S == {i \in 0 .. Len(js) : InReplay(f[i], g[i], d)}
<1>11. 0 \in S
  <2>1. f[0] = ReplayStart(Emptied(d)) /\ g[0] = NoTables
    BY <1>8, <1>9 DEF IsReplay, IsTelling
  <2>2. f[0].res.cat = Emptied(d) /\ f[0].gone = FALSE
    <3>1. ASSUME NEW c, CatalogOK(c), NEW p, p = ReplayStart(c)
          PROVE  p.res.cat = c /\ p.gone = FALSE
      BY <3>1, ReplayStartOK
    <3> QED BY <1>6, <2>1, <3>1
  <2>3. InReplay(f[0], g[0], d)
    BY <1>6, <2>1, <2>2 DEF InReplay
  <2> QED BY <1>7, <2>3
<1>12. ASSUME NEW i \in 0 .. Len(js) - 1, i \in S PROVE i + 1 \in S
  <2>1. i + 1 \in 1 .. Len(js) /\ i + 1 - 1 = i /\ js[i + 1] \in Records /\ i \in 0 .. Len(js)
    BY <1>7
  <2>2. f[i + 1] = ReplayRecord(f[i], js[i + 1], d, ts, memory)
    BY <1>8, <2>1 DEF IsReplay
  <2>3. g[i + 1] = TellRecord(g[i], js[i + 1], d, ts)
    BY <1>9, <2>1 DEF IsTelling
  <2>4. InReplay(f[i], g[i], d) /\ ReplayOK(f[i])
    BY <1>10, <1>12, <2>1
  <2>5. InReplay(f[i + 1], TellRecord(g[i], js[i + 1], d, ts), d)
    BY <1>2, <1>6, <2>1, <2>2, <2>4, InReplayStep
  <2> QED BY <1>7, <2>1, <2>3, <2>5
<1>13. InReplay(r, g[Len(js)], d)
  <2> HIDE DEF S
  <2>1. 0 .. Len(js) \subseteq S
    BY <1>7, <1>11, <1>12, UpTo
  <2>2. Len(js) \in S
    BY <1>7, <2>1
  <2> QED BY <1>8, <2>2 DEF S
<1>14. catalog'.dbs[d] = g[Len(js)]
  BY <1>4, <1>5, <1>13 DEF InReplay
<1> QED BY <1>9, <1>14 DEF Told, js, ts

(* When REVERT answers "reverted", and its database is still there, the      *)
(* database is as its journal told it at that time, with any number of       *)
(* handler threads at work: Executor::execute, REVERT.                       *)
THEOREM RevertsTellTheTruth == EngineSpec => RevertedIsTold
<1> DEFINE Step ==
      \A t \in Threads :
        LET d == Current(catalog) IN
        RevertAnswered(t, TRUE) /\ d \in Created(catalog') /\ ~freed'
          => catalog'.dbs[d] = Told(d, thread[t].stmt.ts)
<1>1. EngineInv /\ [EngineNext]_engineVars => Step
  <2> SUFFICES ASSUME EngineInv, [EngineNext]_engineVars, NEW t \in Threads,
                      RevertAnswered(t, TRUE), Current(catalog) \in Created(catalog'), ~freed'
               PROVE  catalog'.dbs[Current(catalog)] = Told(Current(catalog), thread[t].stmt.ts)
    OBVIOUS
  <2>1. Revert(t) /\ reply'[t] = "ok"
    BY RevertOfThread DEF RevertAnswered
  <2> QED BY <2>1, EngineAssumption, RevertTold
<1>2. EngineInv /\ [EngineNext]_engineVars => [Step]_engineVars
  BY <1>1
<1> HIDE DEF Step
<1>3. EngineSpec => [][Step]_engineVars
  BY <1>2, Invariance, PTL DEF EngineSpec
<1> QED BY <1>3 DEF RevertedIsTold, Step

-----------------------------------------------------------------------------
(* With one handler thread, and no append lost: the replay of a journal      *)
(* that begins with the creation of its own database changes nothing but     *)
(* that database, for it fails there, or passes every record over.           *)
AtHome(p, cat, first, ts) ==
  /\ p.res.cat = cat /\ p.gone = FALSE /\ p.freed = FALSE
  /\ p.res.ok => ~InTime(first, ts)

(* One record on a database that is not gone.                               *)
Parts(p, rec, d, ts, r, n) ==
  \/ ~p.res.ok /\ n = p
  \/ /\ p.res.ok /\ ~InTime(rec, ts)
     /\ n.res = p.res /\ n.gone = FALSE /\ n.freed = FALSE
  \/ /\ p.res.ok /\ InTime(rec, ts) /\ n.res = r /\ n.freed = FALSE
     /\ n.gone = FALSE \/ (r.ok /\ rec.stmt.op = "drop_database" /\ rec.stmt.db = d)

LEMMA ReplayRecordParts ==
  ASSUME NEW p, ReplayOK(p), ~p.gone, NEW rec, NEW d, NEW ts, NEW memory,
         NEW r, Executed(p.res.cat, rec.stmt, r),
         NEW n, n = ReplayRecord(p, rec, d, ts, memory)
  PROVE  Parts(p, rec, d, ts, r, n)
<1>0. p.gone = FALSE
  BY DEF ReplayOK
<1>1. ASSUME NEW gone \in BOOLEAN, n = [res |-> r, gone |-> gone, freed |-> p.gone]
      PROVE  n.res = r /\ n.freed = p.gone /\ n.gone = gone
  BY <1>1
<1>2. ASSUME n = [res |-> p.res, gone |-> p.gone, freed |-> p.gone]
      PROVE  n.res = p.res /\ n.gone = p.gone /\ n.freed = p.gone
  BY <1>2
<1> QED BY <1>0, <1>1, <1>2, ReplayRecordEffect DEF Parts

LEMMA FailsToCreate ==
  ASSUME NEW cat, CatalogOK(cat), NEW s, s.op = "create_database", s.db \in Created(cat),
         NEW r, Executed(cat, s, r)
  PROVE  r.cat = cat /\ r.ok = FALSE
<1>1. s.db \in Dbs
  BY DEF CatalogOK
<1> QED BY <1>1, CreateEffect

LEMMA FirstAtHome ==
  ASSUME NEW cat, CatalogOK(cat), NEW p, p = ReplayStart(cat),
         NEW rec, rec.stmt.op = "create_database", rec.stmt.db \in Created(cat),
         NEW d, NEW ts, NEW memory, NEW n, n = ReplayRecord(p, rec, d, ts, memory)
  PROVE  AtHome(n, cat, rec, ts)
<1>1. p.res.cat = cat /\ p.res.ok = TRUE /\ p.gone = FALSE
  BY ReplayStartOK
<1>2. ReplayOK(p) /\ ~p.gone
  BY ReplayStartOK
<1>3. PICK r : Executed(cat, rec.stmt, r)
  BY DEF Executed
<1>4. r.cat = cat /\ r.ok = FALSE
  BY <1>3, FailsToCreate
<1>5. Executed(p.res.cat, rec.stmt, r)
  BY <1>1, <1>3
<1>6. Parts(p, rec, d, ts, r, n)
  BY <1>2, <1>5, ReplayRecordParts
<1> QED BY <1>1, <1>4, <1>6 DEF AtHome, Parts

LEMMA NextAtHome ==
  ASSUME NEW p, ReplayOK(p), NEW cat, NEW first, NEW ts, AtHome(p, cat, first, ts),
         NEW rec, ~InTime(first, ts) => ~InTime(rec, ts),
         NEW d, NEW memory, NEW n, n = ReplayRecord(p, rec, d, ts, memory)
  PROVE  AtHome(n, cat, first, ts)
<1>1. PICK r : Executed(p.res.cat, rec.stmt, r)
  BY DEF Executed
<1>2. ~p.gone
  BY DEF AtHome
<1>3. Parts(p, rec, d, ts, r, n)
  BY <1>1, <1>2, ReplayRecordParts
<1> QED BY <1>3 DEF AtHome, Parts

LEMMA ReplayAtHome ==
  ASSUME EngineAssumption, NEW js \in Seq(Records), Len(js) > 0, NEW cat, CatalogOK(cat),
         NEW d \in Created(cat), js[1].stmt.op = "create_database", js[1].stmt.db = d,
         \A i, j \in 1 .. Len(js) : i < j => js[i].ts < js[j].ts,
         NEW ts \in Int, NEW memory, NEW f, IsReplay(f, js, cat, d, ts, memory)
  PROVE  AtHome(f[Len(js)], cat, js[1], ts)
<1>1. Len(js) \in Nat /\ 1 \in 1 .. Len(js) /\ \A i \in 1 .. Len(js) : js[i].ts \in Nat
  <2>1. \A i \in 1 .. Len(js) : js[i] \in Records
    OBVIOUS
  <2>2. Len(js) \in Nat
    OBVIOUS
  <2> QED BY <2>1, <2>2 DEF Records
<1>2. \A i \in 0 .. Len(js) : ReplayOK(f[i])
  BY ReplaysOK
<1>3. AtHome(f[1], cat, js[1], ts)
  <2>1. f[0] = ReplayStart(cat) /\ f[1] = ReplayRecord(f[0], js[1], d, ts, memory)
    <3>1. 1 \in 1 .. Len(js) /\ 1 - 1 = 0
      BY <1>1
    <3> QED BY <3>1 DEF IsReplay
  <2> QED BY <2>1, FirstAtHome
<1> DEFINE S == {i \in 0 .. Len(js) - 1 : AtHome(f[i + 1], cat, js[1], ts)}
<1>4. 0 \in S
  BY <1>1, <1>3
<1>5. ASSUME NEW i \in 0 .. (Len(js) - 1) - 1, i \in S PROVE i + 1 \in S
  <2>0. AtHome(f[i + 1], cat, js[1], ts)
    BY <1>5
  <2> HIDE DEF S
  <2>1. PICK k : k = i + 2
    OBVIOUS
  <2>2. /\ k \in 1 .. Len(js) /\ k - 1 = i + 1 /\ i + 1 \in 0 .. Len(js) - 1
        /\ i + 1 \in 0 .. Len(js) /\ 1 < k /\ (i + 1) + 1 = k
    BY <1>1, <2>1
  <2>3. f[k] = ReplayRecord(f[i + 1], js[k], d, ts, memory)
    BY <2>2 DEF IsReplay
  <2>4. ReplayOK(f[i + 1])
    BY <1>2, <2>2
  <2>5. js[1].ts < js[k].ts /\ js[1].ts \in Nat /\ js[k].ts \in Nat
    BY <1>1, <2>2
  <2>6. ~InTime(js[1], ts) => ~InTime(js[k], ts)
    BY <2>5 DEF InTime
  <2>7. AtHome(f[k], cat, js[1], ts)
    BY <2>0, <2>3, <2>4, <2>6, NextAtHome
  <2> QED BY <2>2, <2>7 DEF S
<1>6. Len(js) - 1 \in S
  <2> HIDE DEF S
  <2>1. Len(js) - 1 \in Nat
    BY <1>1
  <2>2. 0 .. Len(js) - 1 \subseteq S
    BY <1>4, <1>5, <2>1, UpTo
  <2> QED BY <2>1, <2>2
<1> QED BY <1>1, <1>6

LEMMA RevertAtHome ==
  ASSUME EngineAssumption, EngineInv, NEW t \in Threads, Revert(t), \A d \in Dbs : OwnCreation(d)
  PROVE  /\ freed' = FALSE /\ Keeps(catalog, catalog')
         /\ Same(Created(catalog) \ {Current(catalog)}, catalog, catalog')
<1>1. CASE UNCHANGED catalog /\ freed' = FALSE
  BY <1>1 DEF Keeps, Same
<1>2. ASSUME NEW memory \in {"intact", "overwritten"}, Reverts(t, memory)
      PROVE  /\ freed' = FALSE /\ Keeps(catalog, catalog')
             /\ Same(Created(catalog) \ {Current(catalog)}, catalog, catalog')
  <2> DEFINE d == Current(catalog)
             js == journal[d]
             ts == thread[t].stmt.ts
             r == Replay(js, Emptied(d), d, ts, memory)
             cat == Emptied(d)
  <2>1. d \in Created(catalog) /\ catalog' = r.res.cat /\ freed' = r.freed
    BY <1>2, Zenon DEF Reverts
  <2>2. d \in Dbs /\ CatalogOK(cat) /\ Keeps(catalog, cat) /\ Same(Created(catalog) \ {d}, catalog, cat)
    BY <2>1, EmptiedFacts DEF Keeps, Same
  <2>3. js \in Seq(Records) /\ Len(js) \in Nat
    BY <2>2 DEF EngineInv, JournalOK
  <2>4. ts \in Int
    BY RevertFacts, BusyThread DEF EngineAssumption, IsStatement
  <2>5. \A i, j \in 1 .. Len(js) : i < j => js[i].ts < js[j].ts
    BY <2>2 DEF EngineInv, JournalOK
  <2>6. js = <<>> \/ (js[1].stmt.op = "create_database" /\ js[1].stmt.db = d)
    BY <2>2 DEF OwnCreation
  <2>7. d \in Created(cat)
    BY <2>1, <2>2 DEF Keeps
  <2> HIDE DEF r, js, ts, cat, d
  <2>8. PICK f : IsReplay(f, js, cat, d, ts, memory) /\ r = f[Len(js)]
    BY <2>3, ReplaySteps DEF r, cat
  <2>9. r.res.cat = cat /\ r.freed = FALSE
    <3>1. CASE js = <<>>
      <4>1. r = ReplayStart(cat)
        BY <2>8, <3>1 DEF IsReplay
      <4> QED BY <2>2, <4>1, ReplayStartOK
    <3>2. CASE js # <<>>
      <4>1. Len(js) > 0
        BY <2>3, <3>2
      <4>2. js[1].stmt.op = "create_database" /\ js[1].stmt.db = d
        BY <2>6, <3>2
      <4>3. AtHome(f[Len(js)], cat, js[1], ts)
        BY <2>2, <2>3, <2>4, <2>5, <2>7, <2>8, <4>1, <4>2, ReplayAtHome
      <4> QED BY <2>8, <4>3 DEF AtHome
    <3> QED BY <3>1, <3>2
  <2> QED BY <2>1, <2>2, <2>9 DEF d
<1> QED BY <1>1, <1>2, RevertFacts

(* The databases there are after a statement were there before it, but for   *)
(* the one it created.                                                       *)
LEMMA NewDatabases ==
  ASSUME EngineAssumption, NEW cat, CatalogOK(cat), NEW s, Executable(s),
         NEW r, Executed(cat, s, r), NEW d \in Created(r.cat)
  PROVE  d \in Created(cat) \/ (s.op = "create_database" /\ d = s.db /\ r.ok = TRUE)
<1>0. s.op \in {"create_database", "drop_database", "use"} => s.db \in Dbs
  BY DEF Executable, IsStatement
<1>1. CASE s.op = "create_database"
  <2>1. r.cat = cat \/ (r.ok = TRUE /\ Gains(cat, r.cat, s.db))
    BY <1>0, <1>1, CreateEffect
  <2> QED BY <1>1, <2>1 DEF Gains
<1>2. CASE s.op = "drop_database"
  <2>1. r.cat = cat \/ Loses(cat, r.cat, s.db)
    BY <1>0, <1>2, DropEffect
  <2> QED BY <2>1 DEF Loses
<1>3. CASE s.op = "use"
  <2>1. r.cat.dbs = cat.dbs
    BY <1>0, <1>3, UseEffect
  <2> QED BY <2>1 DEF Created
<1>4. CASE s.op \notin {"create_database", "drop_database", "use"}
  <2>1. r.cat = cat \/ Keeps(cat, r.cat)
    BY <1>4, TableEffect DEF EngineAssumption
  <2> QED BY <2>1 DEF Keeps
<1> QED BY <1>1, <1>2, <1>3, <1>4

LEMMA NoneLostBefore ==
  ASSUME EngineInv, [EngineNext]_engineVars, lost' = 0
  PROVE  lost = 0
<1>1. lost' = lost \/ lost' = lost + 1
  BY DEF EngineNext, engineVars, Receive, Exec, Revert, AppendRecord, SkipRecord, Leave, Crash
<1> QED BY <1>1 DEF EngineInv

LEMMA HomeReceive ==
  ASSUME EngineAssumption, EngineInv, NEW h \in Threads, HomeInv(h), lost = 0,
         NEW s \in Statements, Receive(h, s)
  PROVE  HomeInv(h)'
<1> DEFINE x == [at |-> "exec", stmt |-> s, dbn |-> Current(catalog), changed |-> {}]
<1>1. thread[h] = Idle /\ thread' = [thread EXCEPT ![h] = x] /\ UNCHANGED <<catalog, journal>>
  BY DEF Receive
<1>2. x.dbn = Current(catalog)
  OBVIOUS
<1> HIDE DEF x
<1>3. thread'[h].dbn = Current(catalog)
  BY <1>1, <1>2, ThreadMoves
<1>4. \A d \in Created(catalog) : journal[d] # <<>>
  BY <1>1 DEF HomeInv, Creating
<1>5. Current(catalog) # NoDb => Current(catalog) \in Created(catalog)
  BY DEF Current
<1>6. \A d \in Dbs : OwnCreation(d)'
  BY <1>1 DEF HomeInv, OwnCreation
<1> QED BY <1>1, <1>3, <1>4, <1>5, <1>6 DEF HomeInv, Created

LEMMA HomeExec ==
  ASSUME EngineAssumption, EngineInv, NEW h \in Threads, HomeInv(h), lost = 0, Exec(h)
  PROVE  HomeInv(h)'
<1>1. PICK s, r, c : s = thread[h].stmt /\ Executed(catalog, s, r) /\ c = Changed(catalog, r.cat)
  BY DEF Executed
<1> DEFINE y == [at |-> "journal", stmt |-> s, dbn |-> thread[h].dbn, changed |-> c]
<1>2. /\ thread[h].at = "exec" /\ s \in Statements /\ Executable(s)
      /\ catalog' = r.cat /\ r.ok \in BOOLEAN
      /\ thread' = [thread EXCEPT ![h] = IF r.ok /\ is_mutating(s) THEN y ELSE Idle]
      /\ UNCHANGED <<journal, lost>>
  BY <1>1, ExecFacts
<1>3. y.at = "journal" /\ y.stmt = s /\ y.dbn = thread[h].dbn /\ y # Idle
  BY DEF Idle
<1> HIDE DEF y
<1>4. thread'[h] = IF r.ok /\ is_mutating(s) THEN y ELSE Idle
  <2> DEFINE x == IF r.ok /\ is_mutating(s) THEN y ELSE Idle
  <2>1. thread' = [thread EXCEPT ![h] = x]
    BY <1>2
  <2> HIDE DEF x
  <2>2. thread'[h] = x
    BY <2>1, ThreadMoves
  <2> QED BY <2>2 DEF x
<1>5. thread[h] # Idle
  BY <1>2, BusyThread
<1>6. \A d \in Created(catalog) : journal[d] # <<>>
  BY <1>2 DEF HomeInv, Creating
<1>7. ASSUME NEW d \in Created(catalog') PROVE journal'[d] # <<>> \/ Creating(h, d)'
  <2>1. d \in Created(r.cat) /\ CatalogOK(catalog)
    BY <1>2, <1>7 DEF EngineInv
  <2>2. d \in Created(catalog) \/ (s.op = "create_database" /\ d = s.db /\ r.ok = TRUE)
    BY <1>1, <1>2, <2>1, NewDatabases
  <2>3. CASE d \in Created(catalog)
    BY <1>2, <1>6, <2>3
  <2>4. CASE s.op = "create_database" /\ d = s.db /\ r.ok = TRUE
    <3>1. is_mutating(s)
      BY <2>4 DEF is_mutating
    <3>2. thread'[h] = y
      BY <1>4, <2>4, <3>1
    <3> QED BY <1>3, <2>4, <3>2 DEF Creating, Idle
  <2> QED BY <2>2, <2>3, <2>4
<1>8. thread'[h] # Idle /\ thread'[h].dbn # NoDb => journal'[thread'[h].dbn] # <<>>
  BY <1>2, <1>3, <1>4, <1>5 DEF HomeInv
<1>9. \A d \in Dbs : OwnCreation(d)'
  BY <1>2 DEF HomeInv, OwnCreation
<1> QED BY <1>7, <1>8, <1>9 DEF HomeInv, Idle

LEMMA HomeAppend ==
  ASSUME EngineAssumption, EngineInv, NEW h \in Threads, HomeInv(h), lost = 0, AppendRecord(h)
  PROVE  HomeInv(h)'
<1>1. PICK jd, s, rec : jd = JournalDb(h) /\ s = thread[h].stmt /\ rec = [ts |-> clock + 1, stmt |-> s]
  OBVIOUS
<1>2. /\ thread[h].at = "journal" /\ jd # NoDb
      /\ journal' = [journal EXCEPT ![jd] = Append(journal[jd], rec)]
      /\ thread' = [thread EXCEPT ![h] = Idle] /\ UNCHANGED catalog
  BY <1>1 DEF AppendRecord, Leave
<1>3. /\ thread[h] # Idle /\ thread[h].stmt \in Journaled /\ thread[h].dbn \in Dbs \cup {NoDb}
  BY <1>2, BusyThread
<1>4. rec.stmt = s /\ rec \in Records
  BY <1>1, <1>3 DEF Records, EngineInv
<1>5. jd \in Dbs /\ (s.op = "create_database" => jd = s.db)
      /\ (s.op # "create_database" => jd \in Created(catalog) \/ jd = thread[h].dbn)
  BY <1>1, <1>2, <1>3, JournaledFacts, CurrentFacts DEF JournalDb, EngineInv, CatalogOK
<1>6. journal \in [Dbs -> Seq(Records)]
  BY DEF EngineInv, JournalOK
<1>7. /\ \A d \in Dbs \ {jd} : journal'[d] = journal[d]
      /\ journal'[jd] = Append(journal[jd], rec) /\ journal[jd] \in Seq(Records)
  BY <1>2, <1>5, <1>6
<1>8. /\ journal'[jd] # <<>>
      /\ journal[jd] = <<>> => journal'[jd][1] = rec
      /\ journal[jd] # <<>> => journal'[jd][1] = journal[jd][1]
  <2>1. ASSUME NEW js \in Seq(Records), NEW more, more = Append(js, rec)
        PROVE  /\ more # <<>> /\ (js = <<>> => more[1] = rec)
               /\ js # <<>> => more[1] = js[1]
    BY <1>4, <2>1
  <2> QED BY <1>7, <2>1
<1>9. s.op # "create_database" => journal[jd] # <<>>
  BY <1>1, <1>2, <1>3, <1>5 DEF HomeInv, Creating
<1>10. ASSUME NEW d \in Dbs PROVE OwnCreation(d)'
  <2>1. OwnCreation(d)
    BY DEF HomeInv
  <2>2. CASE d # jd
    BY <1>7, <2>1, <2>2 DEF OwnCreation
  <2>3. CASE d = jd /\ journal[jd] # <<>>
    BY <1>8, <2>1, <2>3 DEF OwnCreation
  <2>4. CASE d = jd /\ journal[jd] = <<>>
    BY <1>4, <1>5, <1>8, <1>9, <2>4 DEF OwnCreation
  <2> QED BY <2>2, <2>3, <2>4
<1>11. ASSUME NEW d \in Created(catalog) PROVE journal'[d] # <<>>
  <2>1. d \in Dbs
    BY DEF EngineInv, CatalogOK
  <2>2. journal[d] # <<>> \/ d = jd
    BY <1>1, <1>3, <1>5 DEF HomeInv, Creating
  <2> QED BY <1>7, <1>8, <2>1, <2>2
<1>12. thread'[h] = Idle
  BY <1>2, ThreadMoves
<1> QED BY <1>2, <1>10, <1>11, <1>12 DEF HomeInv, Created, Idle

LEMMA HomeStep ==
  ASSUME EngineAssumption, NEW h, Threads = {h}, EngineInv, HomeInv(h), [EngineNext]_engineVars
  PROVE  HomeInv(h)'
<1> SUFFICES ASSUME lost' = 0 PROVE HomeInv(h)'
  BY DEF HomeInv
<1>0. lost = 0
  BY NoneLostBefore
<1>1. CASE UNCHANGED engineVars
  BY <1>1 DEF engineVars, HomeInv, OwnCreation, Created, Creating, Idle
<1>2. ASSUME NEW s \in Statements, Receive(h, s) PROVE HomeInv(h)'
  BY <1>0, <1>2, HomeReceive
<1>3. CASE Exec(h)
  BY <1>0, <1>3, HomeExec
<1>4. CASE Revert(h)
  <2>1. thread[h].at = "exec" /\ thread' = [thread EXCEPT ![h] = Idle] /\ UNCHANGED journal
    BY <1>4, RevertFacts
  <2>2. Keeps(catalog, catalog')
    BY <1>0, <1>4, RevertAtHome DEF HomeInv
  <2>3. thread'[h] = Idle
    BY <2>1, ThreadMoves
  <2>4. \A d \in Created(catalog') : journal'[d] # <<>>
    BY <1>0, <2>1, <2>2 DEF HomeInv, Creating, Keeps
  <2>5. \A d \in Dbs : OwnCreation(d)'
    BY <1>0, <2>1 DEF HomeInv, OwnCreation
  <2> QED BY <2>3, <2>4, <2>5 DEF HomeInv, Idle
<1>5. CASE AppendRecord(h)
  BY <1>0, <1>5, HomeAppend
<1>6. CASE SkipRecord(h)
  <2>1. /\ thread[h].at = "journal" /\ JournalDb(h) = NoDb
        /\ thread' = [thread EXCEPT ![h] = Idle] /\ UNCHANGED <<catalog, journal>>
    BY <1>0, <1>6 DEF SkipRecord, Leave
  <2>2. thread'[h] = Idle
    BY <2>1, ThreadMoves
  <2>3. ASSUME NEW d \in Created(catalog) PROVE journal[d] # <<>>
    <3>1. d # NoDb
      BY EngineAssumption DEF EngineInv, CatalogOK, EngineAssumption
    <3> QED BY <1>0, <2>1, <3>1 DEF HomeInv, Creating, JournalDb
  <2>4. \A d \in Dbs : OwnCreation(d)'
    BY <1>0, <2>1 DEF HomeInv, OwnCreation
  <2> QED BY <2>1, <2>2, <2>3, <2>4 DEF HomeInv, Idle, Created
<1>7. CASE Crash
  <2>1. thread'[h] = Idle /\ Created(catalog') = {} /\ UNCHANGED journal
    BY <1>7 DEF Crash, EmptyCatalog, Created
  <2>2. \A d \in Dbs : OwnCreation(d)'
    BY <1>0, <2>1 DEF HomeInv, OwnCreation
  <2> QED BY <2>1, <2>2 DEF HomeInv, Idle
<1> QED BY <1>1, <1>2, <1>3, <1>4, <1>5, <1>6, <1>7 DEF EngineNext

(* With one handler thread: as long as no append is lost, REVERT stays       *)
(* within the current database and never gets to use a Database it has       *)
(* destroyed: Executor::execute, REVERT.                                     *)
THEOREM RevertsStayHome ==
  ASSUME NEW h, Threads = {h}
  PROVE  EngineSpec => RevertStaysHome
<1> DEFINE Step ==
      \A t \in Threads, ok \in BOOLEAN :
        lost = 0 /\ RevertAnswered(t, ok) =>
          /\ ~freed'
          /\ Created(catalog') = Created(catalog)
          /\ \A d \in Created(catalog) \ {Current(catalog)} : catalog'.dbs[d] = catalog.dbs[d]
           Inv == EngineInv /\ HomeInv(h)
<1>1. EngineInit => HomeInv(h)
  BY DEF EngineInit, EmptyCatalog, HomeInv, OwnCreation, Created, Idle
<1>2. EngineInv /\ HomeInv(h) /\ [EngineNext]_engineVars => HomeInv(h)'
  BY EngineAssumption, HomeStep
<1>3. EngineInv /\ HomeInv(h) /\ [EngineNext]_engineVars => Step
  <2> SUFFICES ASSUME EngineInv, HomeInv(h), [EngineNext]_engineVars, NEW t \in Threads,
                      NEW ok \in BOOLEAN, lost = 0, RevertAnswered(t, ok)
               PROVE  /\ ~freed' /\ Created(catalog') = Created(catalog)
                      /\ \A d \in Created(catalog) \ {Current(catalog)} :
                           catalog'.dbs[d] = catalog.dbs[d]
    OBVIOUS
  <2>1. Revert(t)
    BY RevertOfThread
  <2>2. \A d \in Dbs : OwnCreation(d)
    BY DEF HomeInv
  <2>3. /\ freed' = FALSE /\ Keeps(catalog, catalog')
        /\ Same(Created(catalog) \ {Current(catalog)}, catalog, catalog')
    BY <2>1, <2>2, EngineAssumption, RevertAtHome
  <2> QED BY <2>3 DEF Keeps, Same
<1>4. EngineInv /\ HomeInv(h) /\ [EngineNext]_engineVars => [Step]_engineVars
  BY <1>3
<1> HIDE DEF Step
<1>5. EngineSpec => [][Step]_engineVars
  BY <1>1, <1>2, <1>4, Invariance, PTL DEF EngineSpec
<1> QED BY <1>5 DEF RevertStaysHome, Step

-----------------------------------------------------------------------------
(* With one handler thread: databases and what their journals tell.         *)
LEMMA SelectKeeps ==
  ASSUME NEW tables, TablesOK(tables), NEW s, s.op = "select"
  PROVE  OnTables(tables, s).tables = tables
<1>1. CASE s.table \notin DOMAIN tables
  BY <1>1 DEF OnTables
<1>2. CASE s.table \in DOMAIN tables
  <2> DEFINE new == With(tables, s.table, tables[s.table])
  <2>1. OnTables(tables, s).tables = new
    BY <1>2 DEF OnTables, Rewritten
  <2>2. new = [t \in DOMAIN tables |-> tables[t]]
    <3>1. DOMAIN tables \cup {s.table} = DOMAIN tables
      BY <1>2
    <3> QED BY <3>1 DEF With
  <2> QED BY <2>1, <2>2 DEF TablesOK
<1> QED BY <1>1, <1>2

(* A database that a statement did not change was there before, the same.   *)
LEMMA Unchanged ==
  ASSUME NEW c1, NEW c2, NEW d \in Created(c2), d \notin Changed(c1, c2)
  PROVE  d \in Created(c1) /\ c2.dbs[d] = c1.dbs[d]
BY DEF Changed

(* A statement that only reads changes no database.                         *)
LEMMA ReadingKeeps ==
  ASSUME EngineAssumption, NEW cat, CatalogOK(cat), NEW s, Executable(s), ~is_mutating(s),
         NEW r, Executed(cat, s, r)
  PROVE  Keeps(cat, r.cat) /\ Same(Created(cat), cat, r.cat)
<1>1. CASE s.op = "use"
  <2>1. s.db \in Dbs
    BY <1>1 DEF Executable, IsStatement
  <2>2. r.cat.dbs = cat.dbs
    BY <1>1, <2>1, UseEffect
  <2> QED BY <2>2 DEF Keeps, Same, Created
<1>2. CASE s.op = "select"
  <2> DEFINE h == HomeDb(cat, s)
  <2>1. CASE r.cat = cat
    BY <2>1 DEF Keeps, Same
  <2>2. CASE /\ h \in Created(cat) /\ Keeps(cat, r.cat)
             /\ r.cat.dbs[h] = OnTables(cat.dbs[h], s).tables
             /\ Same(Created(cat) \ {h}, cat, r.cat)
    <3>1. TablesOK(cat.dbs[h])
      BY <2>2 DEF CatalogOK
    <3>2. OnTables(cat.dbs[h], s).tables = cat.dbs[h]
      BY <1>2, <3>1, SelectKeeps
    <3> QED BY <2>2, <3>2 DEF Same
  <2> HIDE DEF h
  <2>3. s.op \notin {"create_database", "drop_database", "use"} /\ NoDb \notin Dbs
    BY <1>2 DEF EngineAssumption
  <2>4. \/ r.cat = cat
        \/ /\ h \in Created(cat) /\ Keeps(cat, r.cat)
           /\ r.cat.dbs[h] = OnTables(cat.dbs[h], s).tables
           /\ Same(Created(cat) \ {h}, cat, r.cat)
    BY <2>3, TableEffect DEF h
  <2> QED BY <2>1, <2>2, <2>4
<1> QED BY <1>1, <1>2 DEF is_mutating

(* A statement executed with success leaves databases that will be in step  *)
(* once it is in the right journal.                                          *)
LEMMA PendingCreate ==
  ASSUME EngineAssumption, CatalogOK(catalog), NEW s, s.op = "create_database", s.db \in Dbs,
         NEW r, Executed(catalog, s, r), r.ok = TRUE, catalog' = r.cat, journal' = journal,
         offLog' = offLog \ {s.db}, \A d \in Created(catalog) \ offLog : InStep(d),
         NEW c, c = Changed(catalog, r.cat)
  PROVE  Pending(s, c)'
<1>1. /\ s.db \notin Created(catalog) /\ Gains(catalog, r.cat, s.db)
      /\ r.cat.dbs[s.db] = NoTables /\ Same(Created(catalog), catalog, r.cat)
  BY CreateEffect
<1>2. \A d \in Created(r.cat) : d \in c <=> d = s.db
  BY <1>1 DEF Changed, Gains, Same
<1>3. ASSUME NEW d \in Created(r.cat), d \notin offLog', d \notin c PROVE InStep(d)'
  <2>1. d \in Created(catalog) /\ r.cat.dbs[d] = catalog.dbs[d]
    BY <1>3, Unchanged
  <2>2. d # s.db /\ d \notin offLog
    BY <1>1, <1>3, <2>1
  <2> QED BY <2>1, <2>2 DEF InStep, Told
<1>4. ~OnTable(s) /\ s.op # "drop_database"
  BY DEF OnTable
<1> QED BY <1>1, <1>2, <1>3, <1>4 DEF Pending, OnTable

LEMMA PendingDrop ==
  ASSUME EngineAssumption, CatalogOK(catalog), NEW s, s.op = "drop_database", s.db \in Dbs,
         NEW r, Executed(catalog, s, r), r.ok = TRUE, catalog' = r.cat, journal' = journal,
         offLog' = offLog, \A d \in Created(catalog) \ offLog : InStep(d),
         NEW c, c = Changed(catalog, r.cat)
  PROVE  Pending(s, c)'
<1>1. Loses(catalog, r.cat, s.db) /\ Same(Created(r.cat), catalog, r.cat)
  BY DropEffect
<1>2. \A d \in Created(r.cat) : d \notin c
  BY <1>1 DEF Changed, Loses, Same
<1>3. ASSUME NEW d \in Created(r.cat), d \notin offLog' PROVE InStep(d)'
  <2>1. d \in Created(catalog) /\ r.cat.dbs[d] = catalog.dbs[d]
    BY <1>2, Unchanged
  <2> QED BY <1>3, <2>1 DEF InStep, Told
<1>4. ~OnTable(s) /\ s.op # "create_database"
  BY DEF OnTable
<1> QED BY <1>1, <1>2, <1>3, <1>4 DEF Pending, OnTable, Loses

LEMMA PendingTable ==
  ASSUME EngineAssumption, CatalogOK(catalog), NEW s, Executable(s), OnTable(s),
         NEW r, Executed(catalog, s, r), r.ok = TRUE, catalog' = r.cat, journal' = journal,
         offLog' = offLog, \A d \in Created(catalog) \ offLog : InStep(d),
         NEW c, c = Changed(catalog, r.cat)
  PROVE  Pending(s, c)'
<1> PICK h : h = HomeDb(catalog, s)
  OBVIOUS
<1>0. s.op \notin {"create_database", "drop_database", "use"} /\ NoDb \notin Dbs
  BY DEF OnTable, EngineAssumption
<1>1. /\ h \in Created(catalog) /\ Keeps(catalog, r.cat)
      /\ r.cat.current = catalog.current
      /\ r.cat.dbs[h] = OnTables(catalog.dbs[h], s).tables
      /\ Same(Created(catalog) \ {h}, catalog, r.cat)
  BY <1>0, TableEffect
<1>2. HomeDb(catalog', s) = h
  BY <1>1 DEF HomeDb, Current, Keeps
<1>3. Created(catalog') = Created(catalog)
  BY <1>1 DEF Keeps
<1>4. \A d \in Created(catalog') : d \in c => d = h
  BY <1>1, <1>3 DEF Changed, Same
<1>5. ASSUME NEW d \in Created(catalog'), d \notin offLog', d \notin c PROVE InStep(d)'
  <2>1. d \in Created(catalog) /\ r.cat.dbs[d] = catalog.dbs[d]
    BY <1>5, Unchanged
  <2> QED BY <1>5, <2>1 DEF InStep, Told
<1>6. ASSUME h \notin offLog' PROVE catalog'.dbs[h] = OnTables(Told(h, MaxClock)', s).tables
  <2>1. catalog.dbs[h] = Told(h, MaxClock)
    BY <1>1, <1>6 DEF InStep
  <2>2. Told(h, MaxClock)' = Told(h, MaxClock)
    BY DEF Told
  <2> QED BY <1>1, <2>1, <2>2
<1> QED BY <1>0, <1>1, <1>2, <1>3, <1>4, <1>5, <1>6 DEF Pending, OnTable

LEMMA TellExec ==
  ASSUME EngineAssumption, EngineInv, NEW h \in Threads, TellInv(h), Exec(h)
  PROVE  TellInv(h)'
<1>1. PICK s, r, c : s = thread[h].stmt /\ Executed(catalog, s, r) /\ c = Changed(catalog, r.cat)
  BY DEF Executed
<1> DEFINE y == [at |-> "journal", stmt |-> s, dbn |-> thread[h].dbn, changed |-> c]
<1>2. /\ thread[h].at = "exec" /\ s \in Statements /\ Executable(s)
      /\ catalog' = r.cat /\ r.ok \in BOOLEAN
      /\ thread' = [thread EXCEPT ![h] = IF r.ok /\ is_mutating(s) THEN y ELSE Idle]
      /\ offLog' = IF ~r.ok THEN offLog \cup c
                   ELSE IF s.op = "create_database" THEN offLog \ {s.db} ELSE offLog
      /\ UNCHANGED journal
  BY <1>1, ExecFacts
<1>3. CatalogOK(catalog) /\ \A d \in Created(catalog) \ offLog : InStep(d)
  BY <1>2 DEF EngineInv, TellInv
<1>4. y.at = "journal" /\ y.stmt = s /\ y.changed = c /\ y # Idle
  BY DEF Idle
<1> HIDE DEF y
<1>5. CASE r.ok /\ is_mutating(s)
  <2>1. thread' = [thread EXCEPT ![h] = y]
    BY <1>2, <1>5
  <2>2. thread'[h] = y
    BY <2>1, ThreadMoves
  <2>3. r.ok = TRUE
    BY <1>2, <1>5
  <2>4. Pending(s, c)'
    <3>1. CASE s.op = "create_database"
      <4>1. s.db \in Dbs /\ offLog' = offLog \ {s.db}
        BY <1>2, <1>5, <3>1 DEF Executable, IsStatement
      <4> QED BY <1>1, <1>2, <1>3, <2>3, <3>1, <4>1, PendingCreate
    <3>2. CASE s.op = "drop_database"
      <4>1. s.db \in Dbs /\ offLog' = offLog
        BY <1>2, <1>5, <3>2 DEF Executable, IsStatement
      <4> QED BY <1>1, <1>2, <1>3, <2>3, <3>2, <4>1, PendingDrop
    <3>3. CASE s.op \notin {"create_database", "drop_database"}
      <4>1. OnTable(s) /\ offLog' = offLog
        BY <1>2, <1>5, <3>3 DEF OnTable, Executable, is_mutating
      <4> QED BY <1>1, <1>2, <1>3, <2>3, <4>1, PendingTable
    <3> QED BY <3>1, <3>2, <3>3
  <2>5. Pending(thread[h].stmt, thread[h].changed)'
    BY <1>4, <2>2, <2>4 DEF Pending
  <2> QED BY <1>4, <2>2, <2>5 DEF TellInv, Idle
<1>6. CASE ~(r.ok /\ is_mutating(s))
  <2>1. thread' = [thread EXCEPT ![h] = Idle]
    BY <1>2, <1>6
  <2>2. thread'[h] = Idle
    BY <2>1, ThreadMoves
  <2>3. ASSUME NEW d \in Created(r.cat), d \notin offLog' PROVE InStep(d)'
    <3>1. d \in Created(catalog) /\ r.cat.dbs[d] = catalog.dbs[d] /\ d \notin offLog
      <4>1. CASE ~r.ok
        <5>1. d \notin Changed(catalog, r.cat) /\ d \notin offLog
          BY <1>1, <1>2, <2>3, <4>1
        <5> QED BY <5>1, Unchanged
      <4>2. CASE r.ok /\ ~is_mutating(s)
        <5>1. Keeps(catalog, r.cat) /\ Same(Created(catalog), catalog, r.cat)
          BY <1>1, <1>2, <1>3, <4>2, ReadingKeeps
        <5>2. s.op # "create_database"
          BY <4>2 DEF is_mutating
        <5> QED BY <1>2, <2>3, <4>2, <5>1, <5>2 DEF Keeps, Same
      <4> QED BY <1>6, <4>1, <4>2
    <3> QED BY <1>2, <1>3, <3>1 DEF InStep, Told
  <2> QED BY <1>2, <2>2, <2>3 DEF TellInv, Idle
<1> QED BY <1>5, <1>6

(* A database changed by a statement whose record does not go astray is the *)
(* one whose journal the record goes to.                                     *)
LEMMA NotAstray ==
  ASSUME EngineAssumption, EngineInv, NEW h \in Threads, thread[h].at = "journal",
         Pending(thread[h].stmt, thread[h].changed),
         NEW d \in Created(catalog), d \in thread[h].changed, d \notin Astray(h)
  PROVE  d = JournalDb(h)
<1>1. PICK s : s = thread[h].stmt
  OBVIOUS
<1>2. (s.op = "create_database" /\ s.db = d) \/ (OnTable(s) /\ d = HomeDb(catalog, s))
  BY <1>1 DEF Pending
<1>3. CASE s.op = "create_database" /\ s.db = d
  BY <1>1, <1>3 DEF JournalDb
<1>4. CASE OnTable(s) /\ d = HomeDb(catalog, s)
  <2>1. s.op \notin {"create_database", "drop_database"}
    BY <1>4 DEF OnTable
  <2>2. CASE s.db = NoDb
    <3>1. d = Current(catalog) /\ d # NoDb
      BY <1>4, <2>2 DEF HomeDb, EngineAssumption, EngineInv, CatalogOK
    <3> QED BY <1>1, <2>1, <3>1 DEF JournalDb
  <2>3. CASE s.db # NoDb
    BY <1>1, <2>1, <2>3 DEF Astray
  <2> QED BY <2>2, <2>3
<1> QED BY <1>2, <1>3, <1>4

(* The record appended brings its database into step again.                 *)
LEMMA RecordTells ==
  ASSUME EngineAssumption, EngineInv, NEW h \in Threads, thread[h].at = "journal",
         NEW s, s = thread[h].stmt, NEW c, c = thread[h].changed, Pending(s, c),
         NEW d \in Created(catalog) \ offLog, d = JournalDb(h),
         NEW rec \in Records, rec.stmt = s, InTime(rec, MaxClock),
         NEW told, told = TellRecord(Told(d, MaxClock), rec, d, MaxClock)
  PROVE  told = catalog.dbs[d]
<1>1. s \in Journaled /\ MaxClock \in Int
  <2>1. thread[h].stmt \in Journaled
    BY BusyThread
  <2> QED BY <2>1 DEF EngineAssumption
<1> DEFINE old == Told(d, MaxClock)
<1>2. /\ d \notin c => old = catalog.dbs[d]
      /\ s.op = "create_database" /\ s.db = d => catalog.dbs[d] = NoTables
      /\ OnTable(s) /\ d = HomeDb(catalog, s) => catalog.dbs[d] = OnTables(old, s).tables
      /\ d \in c => (s.op = "create_database" /\ s.db = d) \/ (OnTable(s) /\ d = HomeDb(catalog, s))
      /\ s.op = "drop_database" => s.db \notin Created(catalog)
      /\ OnTable(s) => HomeDb(catalog, s) \in Created(catalog)
  BY DEF Pending, InStep
<1> HIDE DEF old
<1>3. /\ s.op \in {"create_database", "drop_database"} => told = IF s.db = d THEN NoTables ELSE old
      /\ s.op \notin {"create_database", "drop_database"}
           => told = IF s.db \in {NoDb, d} THEN OnTables(old, s).tables ELSE old
  BY <1>1, TellRecordCases DEF old
<1>4. CASE s.op = "create_database"
  <2>1. s.db = d
    BY <1>4 DEF JournalDb
  <2> QED BY <1>2, <1>3, <1>4, <2>1
<1>5. CASE s.op = "drop_database"
  <2>1. s.db # d /\ ~OnTable(s)
    BY <1>2, <1>5 DEF OnTable
  <2> QED BY <1>2, <1>3, <1>5, <2>1
<1>6. CASE s.op \notin {"create_database", "drop_database"}
  <2>1. OnTable(s)
    BY <1>1, <1>6, JournaledFacts
  <2>2. CASE s.db \in {NoDb, d}
    <3>1. d = HomeDb(catalog, s)
      <4>1. CASE s.db = d
        BY <4>1 DEF HomeDb, EngineAssumption, EngineInv, CatalogOK
      <4>2. CASE s.db = NoDb
        <5>1. HomeDb(catalog, s) = Current(catalog) /\ Current(catalog) # NoDb
          BY <1>2, <2>1, <4>2 DEF HomeDb, EngineAssumption, EngineInv, CatalogOK
        <5> QED BY <1>6, <5>1 DEF JournalDb
      <4> QED BY <2>2, <4>1, <4>2
    <3> QED BY <1>2, <1>3, <1>6, <2>1, <2>2, <3>1
  <2>3. CASE s.db \notin {NoDb, d}
    <3>1. d # HomeDb(catalog, s)
      BY <2>3 DEF HomeDb
    <3> QED BY <1>2, <1>3, <1>6, <2>3, <3>1
  <2> QED BY <2>2, <2>3
<1> QED BY <1>4, <1>5, <1>6

LEMMA TellAppend ==
  ASSUME EngineAssumption, EngineInv, NEW h \in Threads, TellInv(h), AppendRecord(h)
  PROVE  TellInv(h)'
<1>1. PICK jd, s, c, rec : /\ jd = JournalDb(h) /\ s = thread[h].stmt /\ c = thread[h].changed
                           /\ rec = [ts |-> clock + 1, stmt |-> s]
  OBVIOUS
<1>2. /\ thread[h].at = "journal" /\ jd # NoDb
      /\ journal' = [journal EXCEPT ![jd] = Append(journal[jd], rec)]
      /\ thread' = [thread EXCEPT ![h] = Idle] /\ UNCHANGED catalog
      /\ offLog' = offLog \cup Astray(h)
  BY <1>1 DEF AppendRecord, Leave
<1>3. /\ thread[h] # Idle /\ thread[h].stmt \in Journaled /\ thread[h].dbn \in Dbs \cup {NoDb}
  BY <1>2, BusyThread
<1>4. rec.stmt = s /\ rec.ts = clock + 1 /\ rec \in Records
  BY <1>1, <1>3 DEF Records, EngineInv
<1>5. InTime(rec, MaxClock)
  <2>1. h \in Writers
    BY <1>3 DEF Writers, Journaled
  <2>2. Cardinality(Writers) >= 1
    <3>1. ASSUME NEW W, IsFiniteSet(W), h \in W PROVE Cardinality(W) >= 1
      BY <3>1, FS_EmptySet, FS_CardinalityType
    <3> QED BY <2>1, <3>1, WriterCount
  <2> QED BY <1>4, <2>2, WriterCount DEF InTime, EngineInv
<1>6. Pending(s, c)
  BY <1>1, <1>2, <1>3 DEF TellInv
<1>7. jd \in Dbs /\ journal \in [Dbs -> Seq(Records)]
  BY <1>1, <1>2, <1>3, JournaledFacts, CurrentFacts DEF JournalDb, EngineInv, CatalogOK, JournalOK
<1>8. /\ \A d \in Dbs \ {jd} : journal'[d] = journal[d]
      /\ journal'[jd] = Append(journal[jd], rec) /\ journal[jd] \in Seq(Records)
  BY <1>2, <1>7
<1>9. ASSUME NEW d \in Created(catalog), d \notin offLog' PROVE InStep(d)'
  <2>1. d \in Dbs /\ d \notin offLog /\ d \notin Astray(h)
    BY <1>2, <1>9 DEF EngineInv, CatalogOK
  <2>2. CASE d = jd
    <3>1. PICK told : told = TellRecord(Told(d, MaxClock), rec, d, MaxClock)
      OBVIOUS
    <3>2. told = catalog.dbs[d]
      BY <1>1, <1>2, <1>4, <1>5, <1>6, <2>1, <2>2, <3>1, RecordTells
    <3>3. Told(d, MaxClock)' = told
      <4>1. ToldBy(Append(journal[d], rec), d, MaxClock)
            = TellRecord(ToldBy(journal[d], d, MaxClock), rec, d, MaxClock)
        BY <1>4, <1>8, <2>2, ToldByAppend
      <4> QED BY <1>8, <2>2, <3>1, <4>1 DEF Told
    <3> QED BY <1>2, <3>2, <3>3 DEF InStep
  <2>3. CASE d # jd
    <3>1. d \notin c
      BY <1>1, <1>2, <1>6, <2>1, <2>3, NotAstray
    <3>2. InStep(d)
      BY <1>6, <2>1, <3>1 DEF Pending
    <3> QED BY <1>2, <1>8, <2>1, <2>3, <3>2 DEF InStep, Told
  <2> QED BY <2>2, <2>3
<1>10. thread'[h] = Idle
  BY <1>2, ThreadMoves
<1> QED BY <1>2, <1>9, <1>10 DEF TellInv, Idle

LEMMA TellSkip ==
  ASSUME EngineAssumption, EngineInv, NEW h \in Threads, TellInv(h), SkipRecord(h)
  PROVE  TellInv(h)'
<1>1. /\ thread[h].at = "journal" /\ thread' = [thread EXCEPT ![h] = Idle]
      /\ UNCHANGED <<catalog, journal>>
      /\ \/ JournalDb(h) = NoDb /\ offLog' = offLog \cup Astray(h)
         \/ offLog' = offLog \cup thread[h].changed
  BY DEF SkipRecord, Leave
<1>2. Pending(thread[h].stmt, thread[h].changed)
  BY <1>1, BusyThread DEF TellInv
<1>3. ASSUME NEW d \in Created(catalog), d \notin offLog' PROVE InStep(d)'
  <2>1. d \in Dbs /\ d # NoDb /\ d \notin offLog
    BY <1>1, <1>3 DEF EngineAssumption, EngineInv, CatalogOK
  <2>2. d \notin thread[h].changed
    BY <1>1, <1>2, <1>3, <2>1, NotAstray
  <2>3. InStep(d)
    BY <1>2, <2>1, <2>2 DEF Pending
  <2> QED BY <1>1, <2>3 DEF InStep, Told
<1>4. thread'[h] = Idle
  BY <1>1, ThreadMoves
<1> QED BY <1>1, <1>3, <1>4 DEF TellInv, Idle

LEMMA TellStep ==
  ASSUME EngineAssumption, NEW h, Threads = {h}, EngineInv, TellInv(h), [EngineNext]_engineVars
  PROVE  TellInv(h)'
<1>1. CASE UNCHANGED engineVars
  BY <1>1 DEF engineVars, TellInv, Pending, InStep, Told, Created, HomeDb, Current, Idle
<1>2. ASSUME NEW s \in Statements, Receive(h, s) PROVE TellInv(h)'
  <2> DEFINE x == [at |-> "exec", stmt |-> s, dbn |-> Current(catalog), changed |-> {}]
  <2>1. thread[h] = Idle /\ thread' = [thread EXCEPT ![h] = x] /\ UNCHANGED <<catalog, journal, offLog>>
    BY <1>2 DEF Receive
  <2>2. x.at = "exec"
    OBVIOUS
  <2> HIDE DEF x
  <2>3. thread'[h].at = "exec"
    BY <2>1, <2>2, ThreadMoves
  <2> QED BY <2>1, <2>3 DEF TellInv, InStep, Told, Created, Idle
<1>3. CASE Exec(h)
  BY <1>3, TellExec
<1>4. CASE Revert(h)
  <2>1. /\ thread[h].at = "exec" /\ thread' = [thread EXCEPT ![h] = Idle] /\ UNCHANGED journal
        /\ UNCHANGED <<catalog, offLog>> \/ \E memory \in {"intact", "overwritten"} : Reverts(h, memory)
    BY <1>4, RevertFacts
  <2>2. thread'[h] = Idle
    BY <2>1, ThreadMoves
  <2>3. ASSUME NEW d \in Created(catalog'), d \notin offLog' PROVE InStep(d)'
    <3>1. UNCHANGED <<catalog, offLog>> \/ offLog' = offLog \cup Changed(catalog, catalog')
      BY <2>1 DEF Reverts
    <3>2. d \in Created(catalog) /\ catalog'.dbs[d] = catalog.dbs[d] /\ d \notin offLog
      BY <2>3, <3>1 DEF Changed
    <3> QED BY <2>1, <3>2 DEF TellInv, InStep, Told
  <2> QED BY <2>2, <2>3 DEF TellInv, Idle
<1>5. CASE AppendRecord(h)
  BY <1>5, TellAppend
<1>6. CASE SkipRecord(h)
  BY <1>6, TellSkip
<1>7. CASE Crash
  <2>1. thread'[h] = Idle /\ Created(catalog') = {}
    BY <1>7 DEF Crash, EmptyCatalog, Created
  <2> QED BY <2>1 DEF TellInv, Idle
<1> QED BY <1>1, <1>2, <1>3, <1>4, <1>5, <1>6, <1>7 DEF EngineNext

(* With one handler thread, a database that no lost append, failed          *)
(* statement, REVERT or statement from outside has put off its journal is   *)
(* what that journal tells, through DROP, CREATE and restarts:               *)
(* maybe_journal and Journal::append.                                        *)
THEOREM JournalsTellTables ==
  ASSUME NEW h, Threads = {h}
  PROVE  EngineSpec => []JournalTellsTables
<1>1. EngineInit => TellInv(h)
  BY DEF EngineInit, EmptyCatalog, TellInv, Created, Idle
<1>2. EngineInv /\ TellInv(h) /\ [EngineNext]_engineVars => TellInv(h)'
  BY EngineAssumption, TellStep
<1>3. EngineInv /\ TellInv(h) => JournalTellsTables
  BY DEF TellInv, Pending, InStep, JournalTellsTables
<1> QED BY <1>1, <1>2, <1>3, Invariance, PTL DEF EngineSpec
=============================================================================
