---------------------------- MODULE AccessProofs ----------------------------
(***************************************************************************)
(* What AccessControl promises, for all users, databases, statements and   *)
(* bounds.  The inductive invariant says where a database's default        *)
(* permissions are: in place, or in the hands of the thread that has just  *)
(* put the database into the catalog.                                      *)
(***************************************************************************)
EXTENDS AccessControl, TLAPS

(* Every database of the catalog grants everything, or is about to. *)
DefaultsCoverCatalog ==
  \A d \in Created(catalog) : defaults[d] = Perms \/ Arriving(d)

(* The shapes the steps rely on. *)
Shapes ==
  /\ catalog = [dbs |-> catalog.dbs, current |-> catalog.current]
  /\ DOMAIN defaults = Dbs
  /\ DOMAIN thread = Threads
  /\ \A t \in Threads :
       thread[t].at \in {"exec", "default"} /\ thread[t].stmt.op = "create_database"
         => thread[t].stmt.db \in Dbs
  /\ \A t \in Threads : thread[t].at = "default" => thread[t].stmt.op = "create_database"

(* A token was issued by this process or by an earlier one. *)
TokensOfThePast == life \in Nat /\ \A k \in tokens : k.life \in Nat /\ k.life <= life

AccessInv ==
  /\ Shapes
  /\ DefaultsCoverCatalog
  /\ TokensOfThePast
  /\ TokenStandsForAccount
  /\ OwnNameUnlessOvertaken

-----------------------------------------------------------------------------
(* What a statement about databases does to the set of databases. *)
LEMMA Creating ==
  ASSUME Shapes, NEW t \in Threads, CreateDatabase(t)
  PROVE  /\ catalog' = [dbs |-> catalog'.dbs, current |-> catalog'.current]
         /\ \/ Created(catalog') = Created(catalog) /\ Left(t)
            \/ /\ Created(catalog') = Created(catalog) \cup {thread[t].stmt.db}
               /\ MovedTo(t, "default", thread[t].stmt)
<1> DEFINE d == thread[t].stmt.db
<1>1. CASE d \in Created(catalog)
  <2>1. catalog' = catalog /\ Left(t)
    BY <1>1 DEF CreateDatabase, create_database, Failed
  <2> QED BY <2>1 DEF Shapes
<1>2. CASE d \notin Created(catalog)
  <2>1. create_database(catalog, d) = Done(SetDb(catalog, d, NoTables))
    BY <1>2 DEF create_database
  <2>2. /\ catalog' = SetDb(catalog, d, NoTables)
        /\ MovedTo(t, "default", thread[t].stmt)
    BY <2>1 DEF CreateDatabase, Done
  <2> DEFINE dbs == With(catalog.dbs, d, NoTables)
  <2>3. SetDb(catalog, d, NoTables) = [dbs |-> dbs, current |-> catalog.current]
    BY DEF SetDb, Shapes
  <2>4. DOMAIN dbs = Created(catalog) \cup {d}
    BY DEF With, Created
  <2> HIDE DEF dbs
  <2>5. catalog' = [dbs |-> dbs, current |-> catalog.current]
    BY <2>2, <2>3
  <2>6. Created(catalog') = Created(catalog) \cup {d}
    BY <2>4, <2>5 DEF Created
  <2> QED BY <2>2, <2>5, <2>6
<1> QED BY <1>1, <1>2

LEMMA DroppingOrUsing ==
  ASSUME Shapes, NEW t \in Threads, DropDatabase(t) \/ Use(t)
  PROVE  /\ catalog' = [dbs |-> catalog'.dbs, current |-> catalog'.current]
         /\ Created(catalog') \subseteq Created(catalog)
<1> DEFINE d == thread[t].stmt.db
<1>1. CASE d \notin Created(catalog)
  <2>1. catalog' = catalog
    BY <1>1 DEF DropDatabase, Use, drop_database, set_current, Failed
  <2> QED BY <2>1 DEF Shapes
<1>2. CASE d \in Created(catalog) /\ DropDatabase(t)
  <2> DEFINE dbs == Without(catalog.dbs, d)
             current == IF catalog.current = d THEN NoDb ELSE catalog.current
  <2>1. catalog' = [dbs |-> dbs, current |-> current]
    BY <1>2 DEF DropDatabase, drop_database, Done
  <2>2. DOMAIN dbs = Created(catalog) \ {d}
    BY DEF Without, Created
  <2> HIDE DEF dbs, current
  <2> QED BY <2>1, <2>2 DEF Created
<1>3. CASE d \in Created(catalog) /\ Use(t)
  <2>1. catalog' = [catalog EXCEPT !.current = d]
    BY <1>3 DEF Use, set_current, Done
  <2>2. catalog' = [dbs |-> catalog.dbs, current |-> d]
    BY <2>1 DEF Shapes
  <2> QED BY <2>2 DEF Created
<1> QED BY <1>1, <1>2, <1>3

LEMMA InvInit == AccessInit => AccessInv
BY DEF AccessInit, AccessInv, Shapes, DefaultsCoverCatalog, TokensOfThePast, TokenStandsForAccount,
       OwnNameUnlessOvertaken, EmptyCatalog, Created, NoDefaults, Idle

-----------------------------------------------------------------------------
LEMMA ShapesStep ==
  ASSUME AccessAssumption, Shapes, [AccessNext]_accessVars
  PROVE  Shapes'
<1> USE DEF Shapes
<1>1. ASSUME NEW t \in Threads, NEW token \in tokens \cup {NoToken}, Authenticate(t, token)
      PROVE  Shapes'
  BY <1>1 DEF Authenticate, Idle
<1>2. ASSUME NEW t \in Threads, ParseFails(t)
      PROVE  Shapes'
  BY <1>2 DEF ParseFails, Left, Idle, processVars
<1>3. ASSUME NEW t \in Threads, NEW s \in Statements, Permit(t, s)
      PROVE  Shapes'
  BY <1>3 DEF Permit, Left, MovedTo, Idle, processVars, AccessAssumption, NamesKnown
<1>4. ASSUME NEW t \in Threads, CreateDatabase(t)
      PROVE  Shapes'
  <2>1. /\ catalog' = [dbs |-> catalog'.dbs, current |-> catalog'.current]
        /\ Left(t) \/ MovedTo(t, "default", thread[t].stmt)
    BY <1>4, Creating
  <2> QED BY <1>4, <2>1 DEF CreateDatabase, Doing, Left, MovedTo, Idle
<1>5. ASSUME NEW t \in Threads, DropDatabase(t) \/ Use(t)
      PROVE  Shapes'
  <2>1. catalog' = [dbs |-> catalog'.dbs, current |-> catalog'.current]
    BY <1>5, DroppingOrUsing
  <2> QED BY <1>5, <2>1 DEF DropDatabase, Use, Left, Idle
<1>6. ASSUME NEW t \in Threads, Work(t) \/ CreateUser(t) \/ CreateGroup(t) \/ Grant(t) \/ Login(t)
      PROVE  Shapes'
  BY <1>6 DEF Work, CreateUser, CreateGroup, Grant, Login, Left, Idle, processVars
<1>7. ASSUME NEW t \in Threads, GrantDefault(t)
      PROVE  Shapes'
  BY <1>7 DEF GrantDefault, Left, Idle
<1>8. CASE Tick \/ UNCHANGED accessVars
  BY <1>8 DEF Tick, accessVars, processVars
<1>9. CASE Restart
  BY <1>9 DEF Restart, EmptyCatalog, NoDefaults, Idle
<1> QED BY <1>1, <1>2, <1>3, <1>4, <1>5, <1>6, <1>7, <1>8, <1>9 DEF AccessNext, Exec

LEMMA DefaultsStep ==
  ASSUME Shapes, DefaultsCoverCatalog, [AccessNext]_accessVars
  PROVE  DefaultsCoverCatalog'
<1> USE DEF DefaultsCoverCatalog
<1> SUFFICES ASSUME NEW d \in Created(catalog')
             PROVE  defaults'[d] = Perms \/ Arriving(d)'
  BY DEF Created
<1>1. ASSUME NEW t \in Threads, NEW r, thread[t].at # "default",
             thread' = [thread EXCEPT ![t] = r],
             defaults' = defaults, d \in Created(catalog)
      PROVE  defaults'[d] = Perms \/ Arriving(d)'
  BY <1>1 DEF Arriving, Shapes
<1>2. ASSUME NEW t \in Threads, NEW token \in tokens \cup {NoToken}, Authenticate(t, token)
      PROVE  defaults'[d] = Perms \/ Arriving(d)'
  <2>1. thread[t].at # "default"
    BY <1>2 DEF Authenticate, Idle
  <2>2. PICK r : thread' = [thread EXCEPT ![t] = r]
    BY <1>2 DEF Authenticate
  <2>3. defaults' = defaults /\ catalog' = catalog
    BY <1>2 DEF Authenticate
  <2> QED BY <1>1, <2>1, <2>2, <2>3
<1>3. ASSUME NEW t \in Threads, ParseFails(t)
      PROVE  defaults'[d] = Perms \/ Arriving(d)'
  BY <1>1, <1>3 DEF ParseFails, Left, processVars
<1>4. ASSUME NEW t \in Threads, NEW s \in Statements, Permit(t, s)
      PROVE  defaults'[d] = Perms \/ Arriving(d)'
  BY <1>1, <1>4 DEF Permit, Left, MovedTo, processVars
<1>5. ASSUME NEW t \in Threads, CreateDatabase(t)
      PROVE  defaults'[d] = Perms \/ Arriving(d)'
  <2>1. defaults' = defaults /\ thread[t].at # "default" /\ d \in Created(catalog')
    BY <1>5 DEF CreateDatabase, Doing
  <2>2. CASE d \in Created(catalog)
    <3>1. Left(t) \/ MovedTo(t, "default", thread[t].stmt)
      BY <1>5, Creating
    <3> QED BY <1>1, <2>1, <2>2, <3>1 DEF Left, MovedTo
  <2>3. CASE d \notin Created(catalog)
    <3>1. d = thread[t].stmt.db /\ MovedTo(t, "default", thread[t].stmt)
      BY <1>5, <2>1, <2>3, Creating
    <3>2. thread'[t].at = "default" /\ thread'[t].stmt.db = d
      BY <3>1 DEF MovedTo, Shapes
    <3> QED BY <3>2 DEF Arriving
  <2> QED BY <2>2, <2>3
<1>6. ASSUME NEW t \in Threads, DropDatabase(t) \/ Use(t)
      PROVE  defaults'[d] = Perms \/ Arriving(d)'
  <2>1. d \in Created(catalog)
    BY <1>6, DroppingOrUsing
  <2> QED BY <1>1, <1>6, <2>1 DEF DropDatabase, Use, Doing, Left
<1>7. ASSUME NEW t \in Threads, Work(t) \/ CreateUser(t) \/ CreateGroup(t) \/ Grant(t) \/ Login(t)
      PROVE  defaults'[d] = Perms \/ Arriving(d)'
  BY <1>1, <1>7 DEF Work, CreateUser, CreateGroup, Grant, Login, Doing, Left, processVars
<1>8. ASSUME NEW t \in Threads, GrantDefault(t)
      PROVE  defaults'[d] = Perms \/ Arriving(d)'
  <2> DEFINE e == thread[t].stmt.db
  <2>1. e \in Dbs /\ defaults' = [defaults EXCEPT ![e] = Perms] /\ catalog' = catalog
    BY <1>8 DEF GrantDefault, Shapes
  <2>2. CASE d = e
    BY <2>1, <2>2 DEF Shapes
  <2>3. CASE d # e
    <3>1. defaults'[d] = defaults[d]
      BY <2>1, <2>3
    <3>2. ASSUME Arriving(d) PROVE Arriving(d)'
      <4>1. PICK v \in Threads : thread[v].at = "default" /\ thread[v].stmt.db = d
        BY <3>2 DEF Arriving
      <4>2. v # t
        BY <4>1, <2>3
      <4>3. thread'[v] = thread[v]
        BY <1>8, <4>2 DEF GrantDefault, Left, Shapes
      <4> QED BY <4>1, <4>3 DEF Arriving
    <3> QED BY <2>1, <3>1, <3>2
  <2> QED BY <2>2, <2>3
<1>9. CASE Tick \/ UNCHANGED accessVars
  BY <1>9 DEF Tick, accessVars, processVars, Arriving
<1>10. CASE Restart
  BY <1>10 DEF Restart, EmptyCatalog, Created
<1> QED BY <1>2, <1>3, <1>4, <1>5, <1>6, <1>7, <1>8, <1>9, <1>10 DEF AccessNext, Exec

-----------------------------------------------------------------------------
LEMMA TokensStep ==
  ASSUME TokensOfThePast, TokenStandsForAccount, [AccessNext]_accessVars
  PROVE  TokensOfThePast' /\ TokenStandsForAccount'
<1> USE DEF TokensOfThePast, TokenStandsForAccount
<1>1. ASSUME UNCHANGED <<users, tokens, life>>
      PROVE  TokensOfThePast' /\ TokenStandsForAccount'
  BY <1>1
<1>2. ASSUME NEW t \in Threads, NEW token \in tokens \cup {NoToken}, Authenticate(t, token)
      PROVE  TokensOfThePast' /\ TokenStandsForAccount'
  BY <1>1, <1>2 DEF Authenticate
<1>3. ASSUME NEW t \in Threads, NEW s \in Statements, Permit(t, s)
      PROVE  TokensOfThePast' /\ TokenStandsForAccount'
  BY <1>1, <1>3 DEF Permit, processVars
<1>4. ASSUME NEW t \in Threads,
             \/ Work(t) \/ CreateDatabase(t) \/ GrantDefault(t) \/ DropDatabase(t) \/ Use(t)
             \/ CreateGroup(t) \/ Grant(t)
      PROVE  TokensOfThePast' /\ TokenStandsForAccount'
  BY <1>1, <1>4 DEF Work, CreateDatabase, GrantDefault, DropDatabase, Use, CreateGroup, Grant,
                    processVars
<1>5. ASSUME NEW t \in Threads, CreateUser(t)
      PROVE  TokensOfThePast' /\ TokenStandsForAccount'
  <2>1. \A u \in DOMAIN users : u \in DOMAIN users' /\ users'[u] = users[u]
    BY <1>5 DEF CreateUser, With
  <2> QED BY <1>5, <2>1 DEF CreateUser
<1>6. ASSUME NEW t \in Threads, Login(t)
      PROVE  TokensOfThePast' /\ TokenStandsForAccount'
  BY <1>6 DEF Login, processVars
<1>7. CASE Tick \/ UNCHANGED accessVars
  BY <1>1, <1>7 DEF Tick, accessVars, processVars
<1>8. ASSUME NEW t \in Threads, ParseFails(t)
      PROVE  TokensOfThePast' /\ TokenStandsForAccount'
  BY <1>1, <1>8 DEF ParseFails, processVars
<1>9. CASE Restart
  <2>1. life' = life + 1 /\ tokens' = tokens
    BY <1>9 DEF Restart
  <2>2. \A k \in tokens : k.life # life'
    BY <2>1
  <2> QED BY <2>1, <2>2
<1> QED BY <1>2, <1>3, <1>4, <1>5, <1>6, <1>7, <1>8, <1>9 DEF AccessNext, Exec

(* A token that is accepted marks every other request as overtaken; what is *)
(* not marked has seen no change of rbac_user_.                             *)
LEMMA OwnNameStep ==
  ASSUME Shapes, OwnNameUnlessOvertaken, [AccessNext]_accessVars
  PROVE  OwnNameUnlessOvertaken'
<1> USE DEF OwnNameUnlessOvertaken, Shapes
<1>1. ASSUME NEW t \in Threads, NEW token \in tokens \cup {NoToken}, Authenticate(t, token)
      PROVE  OwnNameUnlessOvertaken'
  BY <1>1 DEF Authenticate, Waiting, Idle
<1>2. ASSUME NEW t \in Threads, ParseFails(t)
      PROVE  OwnNameUnlessOvertaken'
  BY <1>2 DEF ParseFails, Left, Idle, processVars
<1>3. ASSUME NEW t \in Threads, NEW s \in Statements, Permit(t, s)
      PROVE  OwnNameUnlessOvertaken'
  BY <1>3 DEF Permit, Left, MovedTo, Idle, processVars
<1>4. ASSUME NEW t \in Threads, Exec(t)
      PROVE  OwnNameUnlessOvertaken'
  BY <1>4 DEF Exec, Work, CreateDatabase, GrantDefault, DropDatabase, Use, CreateUser, CreateGroup,
              Grant, Login, Left, MovedTo, Idle, processVars
<1>5. CASE Tick \/ UNCHANGED accessVars
  BY <1>5 DEF Tick, accessVars, processVars
<1>6. CASE Restart
  BY <1>6 DEF Restart, Idle
<1> QED BY <1>1, <1>2, <1>3, <1>4, <1>5, <1>6 DEF AccessNext

-----------------------------------------------------------------------------
(* The invariant holds in every behaviour. *)
THEOREM AccessInvariant == AccessSpec => []AccessInv
<1> USE AccessAssumption
<1>1. AccessInit => AccessInv
  BY InvInit
<1>2. AccessInv /\ [AccessNext]_accessVars => AccessInv'
  BY ShapesStep, DefaultsStep, TokensStep, OwnNameStep DEF AccessInv
<1> QED BY <1>1, <1>2, PTL DEF AccessSpec

(* No name is ever refused anything in a database whose creation is over:   *)
(* rbac_user_, shared by all connections, and the grants decide nothing.    *)
THEOREM NamesDecideNothing == AccessSpec => []NameDecidesNothing
<1>1. AccessInv => NameDecidesNothing
  BY DEF AccessInv, DefaultsCoverCatalog, NameDecidesNothing, check
<1> QED BY <1>1, AccessInvariant, PTL

(* A token stands for an account of the process that issued it.             *)
THEOREM TokensStandForAccounts == AccessSpec => []TokenStandsForAccount
<1>1. AccessInv => TokenStandsForAccount
  BY DEF AccessInv
<1> QED BY <1>1, AccessInvariant, PTL

(* A request with a token is judged in its own name unless overtaken.       *)
THEOREM OwnNames == AccessSpec => []OwnNameUnlessOvertaken
<1>1. AccessInv => OwnNameUnlessOvertaken
  BY DEF AccessInv
<1> QED BY <1>1, AccessInvariant, PTL

-----------------------------------------------------------------------------
(* Types, part by part.  Beyond AccessTypeOK: a statement on its way is one *)
(* of the clients', and expiry times are numbers.                           *)
AccountsOK ==
  /\ DOMAIN users \subseteq Users
  /\ \A u \in DOMAIN users : users[u].password \in Passwords /\ users[u].groups \subseteq groups
  /\ groups \subseteq Groups

RightsOK == grants \in [Dbs -> [Principals -> SUBSET Perms]] /\ defaults \in [Dbs -> {{}, Perms}]

CatalogOK == Created(catalog) \subseteq Dbs /\ catalog.current \in Dbs \cup {NoDb}

ThreadOK(t) ==
  /\ thread[t].at \in {"idle", "known", "exec", "default"}
  /\ thread[t].token \in tokens \cup {NoToken}
  /\ thread[t].at \in {"exec", "default"} => NamesKnown(thread[t].stmt)

TokensOK ==
  /\ now \in Nat
  /\ \A k \in tokens : k.sub \in Users /\ k.exp \in Nat /\ k.exp <= now + Ttl

TypesInv ==
  /\ AccountsOK /\ RightsOK /\ CatalogOK /\ TokensOK
  /\ rbac_user \in Users \cup {NoUser}
  /\ \A t \in Threads : ThreadOK(t)

LEMMA TypesInit == AccessAssumption /\ AccessInit => TypesInv
<1> SUFFICES ASSUME AccessAssumption, AccessInit PROVE TypesInv
  OBVIOUS
<1>1. AccountsOK
  BY DEF AccessInit, AccessAssumption, AccountsOK, FirstUsers
<1>2. RightsOK
  BY DEF AccessInit, RightsOK, NoGrants, NoDefaults
<1>3. CatalogOK
  BY DEF AccessInit, CatalogOK, EmptyCatalog, Created
<1>4. TokensOK /\ rbac_user \in Users \cup {NoUser}
  BY DEF AccessInit, TokensOK
<1>5. \A t \in Threads : ThreadOK(t)
  BY DEF AccessInit, ThreadOK, Idle
<1> QED BY <1>1, <1>2, <1>3, <1>4, <1>5 DEF TypesInv

LEMMA AccountsStep ==
  ASSUME AccessAssumption, TypesInv, [AccessNext]_accessVars
  PROVE  AccountsOK'
<1> USE DEF AccountsOK, TypesInv
<1>1. CASE UNCHANGED <<users, groups>>
  BY <1>1
<1>2. ASSUME NEW t \in Threads, CreateUser(t) PROVE AccountsOK'
  <2> PICK u, w : u = thread[t].stmt.user /\ w = thread[t].stmt.password
    OBVIOUS
  <2>1. u \in Users /\ w \in Passwords
    BY <1>2 DEF CreateUser, Doing, ThreadOK, NamesKnown
  <2>2. /\ groups' = groups
        /\ users' = users \/ users' = With(users, u, [password |-> w, groups |-> {}])
    BY <1>2 DEF CreateUser
  <2>3. CASE users' = users
    BY <2>2, <2>3
  <2>4. CASE users' = With(users, u, [password |-> w, groups |-> {}])
    BY <2>1, <2>2, <2>4 DEF With
  <2> QED BY <2>2, <2>3, <2>4
<1>3. ASSUME NEW t \in Threads, CreateGroup(t) PROVE AccountsOK'
  <2>1. thread[t].stmt.group \in Groups
    BY <1>3 DEF CreateGroup, Doing, ThreadOK, NamesKnown
  <2> QED BY <1>3, <2>1 DEF CreateGroup
<1>4. CASE Restart
  BY <1>4 DEF Restart, FirstUsers, AccessAssumption
<1>5. ASSUME NEW t \in Threads,
             \/ \E token \in tokens \cup {NoToken} : Authenticate(t, token)
             \/ ParseFails(t) \/ \E s \in Statements : Permit(t, s)
             \/ Work(t) \/ CreateDatabase(t) \/ GrantDefault(t) \/ DropDatabase(t) \/ Use(t)
             \/ Grant(t) \/ Login(t)
      PROVE  AccountsOK'
  <2>1. UNCHANGED <<users, groups>>
    BY <1>5 DEF Authenticate, ParseFails, Permit, Work, CreateDatabase, GrantDefault, DropDatabase,
                Use, Grant, Login, processVars
  <2> QED BY <1>1, <2>1
<1>6. CASE Tick \/ UNCHANGED accessVars
  BY <1>1, <1>6 DEF Tick, accessVars, processVars
<1> QED BY <1>2, <1>3, <1>4, <1>5, <1>6 DEF AccessNext, Exec

LEMMA RightsStep ==
  ASSUME AccessAssumption, Shapes, TypesInv, [AccessNext]_accessVars
  PROVE  RightsOK'
<1> USE DEF TypesInv
<1>1. CASE UNCHANGED <<grants, defaults>>
  BY <1>1 DEF RightsOK
<1>2. ASSUME NEW t \in Threads, GrantDefault(t) PROVE RightsOK'
  <2> PICK d : d = thread[t].stmt.db
    OBVIOUS
  <2>1. d \in Dbs
    BY <1>2 DEF GrantDefault, Shapes
  <2>2. grants' = grants /\ defaults' = [defaults EXCEPT ![d] = Perms]
    BY <1>2 DEF GrantDefault
  <2> QED BY <2>1, <2>2 DEF RightsOK
<1>3. ASSUME NEW t \in Threads, Grant(t) PROVE RightsOK'
  <2> PICK d, p, perm : /\ d = thread[t].stmt.db /\ perm = thread[t].stmt.perm
                        /\ p = <<"user", thread[t].stmt.user>>
    OBVIOUS
  <2>1. d \in Dbs /\ perm \in Perms /\ p \in Principals
    BY <1>3 DEF Grant, Doing, ThreadOK, NamesKnown, Principals
  <2>2. defaults' = defaults /\ grants' = [grants EXCEPT ![d][p] = @ \cup {perm}]
    BY <1>3 DEF Grant
  <2>3. grants[d] \in [Principals -> SUBSET Perms]
    BY <2>1 DEF RightsOK
  <2>4. [grants[d] EXCEPT ![p] = @ \cup {perm}] \in [Principals -> SUBSET Perms]
    BY <2>1, <2>3
  <2> QED BY <2>1, <2>2, <2>4 DEF RightsOK
<1>4. CASE Restart
  BY <1>4 DEF Restart, RightsOK, NoGrants, NoDefaults
<1>5. ASSUME NEW t \in Threads,
             \/ \E token \in tokens \cup {NoToken} : Authenticate(t, token)
             \/ ParseFails(t) \/ \E s \in Statements : Permit(t, s)
             \/ Work(t) \/ CreateDatabase(t) \/ DropDatabase(t) \/ Use(t)
             \/ CreateUser(t) \/ CreateGroup(t) \/ Login(t)
      PROVE  RightsOK'
  <2>1. UNCHANGED <<grants, defaults>>
    BY <1>5 DEF Authenticate, ParseFails, Permit, Work, CreateDatabase, DropDatabase,
                Use, CreateUser, CreateGroup, Login, processVars
  <2> QED BY <1>1, <2>1
<1>6. CASE Tick \/ UNCHANGED accessVars
  BY <1>1, <1>6 DEF Tick, accessVars, processVars
<1> QED BY <1>2, <1>3, <1>4, <1>5, <1>6 DEF AccessNext, Exec

(* The current database after each statement about databases.               *)
LEMMA CurrentAfter ==
  ASSUME Shapes, NEW t \in Threads, CreateDatabase(t) \/ DropDatabase(t) \/ Use(t)
  PROVE  catalog'.current \in {catalog.current, NoDb} \cup Created(catalog)
<1> DEFINE d == thread[t].stmt.db
<1>1. CASE CreateDatabase(t)
  <2>1. CASE d \in Created(catalog)
    BY <1>1, <2>1 DEF CreateDatabase, create_database, Failed
  <2>2. CASE d \notin Created(catalog)
    <3>1. catalog' = SetDb(catalog, d, NoTables)
      BY <1>1, <2>2 DEF CreateDatabase, create_database, Done
    <3>2. catalog' = [catalog EXCEPT !.dbs = With(catalog.dbs, d, NoTables)]
      BY <3>1 DEF SetDb
    <3> QED BY <3>2 DEF Shapes
  <2> QED BY <2>1, <2>2
<1>2. CASE DropDatabase(t)
  BY <1>2 DEF DropDatabase, drop_database, Done, Failed
<1>3. CASE Use(t)
  <2>1. CASE d \in Created(catalog)
    <3>1. catalog' = [catalog EXCEPT !.current = d]
      BY <1>3, <2>1 DEF Use, set_current, Done
    <3> QED BY <2>1, <3>1 DEF Shapes
  <2>2. CASE d \notin Created(catalog)
    BY <1>3, <2>2 DEF Use, set_current, Failed
  <2> QED BY <2>1, <2>2
<1> QED BY <1>1, <1>2, <1>3

LEMMA CatalogStep ==
  ASSUME AccessAssumption, Shapes, TypesInv, [AccessNext]_accessVars
  PROVE  CatalogOK'
<1> USE DEF TypesInv
<1>1. CASE UNCHANGED catalog
  BY <1>1 DEF CatalogOK, Created
<1>2. ASSUME NEW t \in Threads, CreateDatabase(t) \/ DropDatabase(t) \/ Use(t) PROVE CatalogOK'
  <2>1. catalog'.current \in Dbs \cup {NoDb}
    BY <1>2, CurrentAfter DEF CatalogOK
  <2>2. CASE CreateDatabase(t)
    <3>1. thread[t].stmt.db \in Dbs
      BY <2>2 DEF CreateDatabase, Doing, Shapes
    <3>2. \/ Created(catalog') = Created(catalog)
          \/ Created(catalog') = Created(catalog) \cup {thread[t].stmt.db}
      BY <2>2, Creating
    <3> QED BY <2>1, <3>1, <3>2 DEF CatalogOK, Created
  <2>3. CASE DropDatabase(t) \/ Use(t)
    <3>1. Created(catalog') \subseteq Created(catalog)
      BY <2>3, DroppingOrUsing
    <3> QED BY <2>1, <3>1 DEF CatalogOK, Created
  <2> QED BY <1>2, <2>2, <2>3
<1>3. CASE Restart
  BY <1>3 DEF Restart, EmptyCatalog, CatalogOK, Created
<1>4. ASSUME NEW t \in Threads,
             \/ \E token \in tokens \cup {NoToken} : Authenticate(t, token)
             \/ ParseFails(t) \/ \E s \in Statements : Permit(t, s)
             \/ Work(t) \/ GrantDefault(t)
             \/ CreateUser(t) \/ CreateGroup(t) \/ Grant(t) \/ Login(t)
      PROVE  CatalogOK'
  <2>1. UNCHANGED catalog
    BY <1>4 DEF Authenticate, ParseFails, Permit, Work, GrantDefault, CreateUser, CreateGroup,
                Grant, Login, processVars
  <2> QED BY <1>1, <2>1
<1>5. CASE Tick \/ UNCHANGED accessVars
  BY <1>1, <1>5 DEF Tick, accessVars, processVars
<1> QED BY <1>2, <1>3, <1>4, <1>5 DEF AccessNext, Exec

LEMMA TokenTypesStep ==
  ASSUME AccessAssumption, TypesInv, [AccessNext]_accessVars
  PROVE  TokensOK' /\ rbac_user' \in Users \cup {NoUser}
<1> USE DEF TypesInv, TokensOK
<1>0. Ttl \in Nat
  BY DEF AccessAssumption
<1>1. ASSUME NEW t \in Threads, NEW token \in tokens \cup {NoToken}, Authenticate(t, token)
      PROVE  TokensOK' /\ rbac_user' \in Users \cup {NoUser}
  BY <1>1 DEF Authenticate
<1>2. ASSUME NEW t \in Threads, Login(t)
      PROVE  TokensOK' /\ rbac_user' \in Users \cup {NoUser}
  <2> PICK k : k = [sub |-> thread[t].stmt.user, exp |-> now + Ttl,
                    life |-> life, password |-> thread[t].stmt.password]
    OBVIOUS
  <2>1. /\ now' = now /\ rbac_user' = rbac_user
        /\ \/ tokens' = tokens
           \/ tokens' = tokens \cup {k} /\ k.sub \in DOMAIN users
    BY <1>2 DEF Login, processVars
  <2>2. k.exp = now + Ttl
    OBVIOUS
  <2>3. ASSUME NEW j \in tokens' PROVE j.sub \in Users /\ j.exp \in Nat /\ j.exp <= now + Ttl
    BY <1>0, <2>1, <2>2 DEF AccountsOK
  <2> QED BY <2>1, <2>3
<1>3. CASE Tick
  <2>1. /\ now' = now + 1 /\ tokens' = tokens /\ rbac_user' = rbac_user
    BY <1>3 DEF Tick, processVars
  <2>2. ASSUME NEW j \in tokens PROVE j.sub \in Users /\ j.exp \in Nat /\ j.exp <= now + 1 + Ttl
    BY <1>0
  <2> QED BY <2>1, <2>2
<1>4. CASE Restart
  BY <1>4 DEF Restart
<1>5. ASSUME NEW t \in Threads,
             \/ ParseFails(t) \/ \E s \in Statements : Permit(t, s)
             \/ Work(t) \/ CreateDatabase(t) \/ GrantDefault(t) \/ DropDatabase(t) \/ Use(t)
             \/ CreateUser(t) \/ CreateGroup(t) \/ Grant(t)
      PROVE  TokensOK' /\ rbac_user' \in Users \cup {NoUser}
  <2>1. UNCHANGED <<tokens, now, rbac_user>>
    BY <1>5 DEF ParseFails, Permit, Work, CreateDatabase, GrantDefault, DropDatabase,
                Use, CreateUser, CreateGroup, Grant, processVars
  <2> QED BY <2>1
<1>6. CASE UNCHANGED accessVars
  BY <1>6 DEF accessVars, processVars
<1> QED BY <1>1, <1>2, <1>3, <1>4, <1>5, <1>6 DEF AccessNext, Exec

(* One thread moves, tokens only grow in number.                            *)
LEMMA OneMoves ==
  ASSUME Shapes, TypesInv, NEW t \in Threads, NEW r, thread' = [thread EXCEPT ![t] = r],
         tokens \subseteq tokens',
         r.at \in {"idle", "known", "exec", "default"}, r.token \in tokens \cup {NoToken},
         r.at \in {"exec", "default"} => NamesKnown(r.stmt)
  PROVE  \A u \in Threads : ThreadOK(u)'
<1> SUFFICES ASSUME NEW u \in Threads PROVE ThreadOK(u)'
  OBVIOUS
<1>1. thread'[u] = IF u = t THEN r ELSE thread[u]
  BY DEF Shapes
<1>2. NamesKnown(thread[u].stmt)' = NamesKnown(thread'[u].stmt)
  BY DEF NamesKnown
<1>3. CASE u = t
  BY <1>1, <1>2, <1>3 DEF ThreadOK, NamesKnown
<1>4. CASE u # t
  BY <1>1, <1>2, <1>4 DEF TypesInv, ThreadOK, NamesKnown
<1> QED BY <1>3, <1>4

LEMMA Leaves ==
  ASSUME Shapes, TypesInv, NEW t \in Threads, Left(t), tokens \subseteq tokens'
  PROVE  \A u \in Threads : ThreadOK(u)'
BY OneMoves DEF Left, Idle

LEMMA ThreadsStep ==
  ASSUME AccessAssumption, Shapes, TypesInv, [AccessNext]_accessVars
  PROVE  \A u \in Threads : ThreadOK(u)'
<1>1. ASSUME NEW t \in Threads, NEW token \in tokens \cup {NoToken}, Authenticate(t, token)
      PROVE  \A u \in Threads : ThreadOK(u)'
  <2>1. /\ thread' = [thread EXCEPT ![t] = [Idle EXCEPT !.at = "known", !.token = token]]
        /\ tokens' = tokens
    BY <1>1 DEF Authenticate
  <2> PICK r : r = [Idle EXCEPT !.at = "known", !.token = token]
    OBVIOUS
  <2>2. r.at = "known" /\ r.token = token
    BY DEF Idle
  <2> QED BY <2>1, <2>2, OneMoves
<1>2. ASSUME NEW t \in Threads, NEW s \in Statements, Permit(t, s)
      PROVE  \A u \in Threads : ThreadOK(u)'
  <2>1. tokens' = tokens /\ (Left(t) \/ MovedTo(t, "exec", s))
    BY <1>2 DEF Permit
  <2>2. CASE MovedTo(t, "exec", s)
    <3> PICK r : r = [at |-> "exec", token |-> NoToken, stmt |-> s]
      OBVIOUS
    <3>1. thread' = [thread EXCEPT ![t] = r]
      BY <2>2 DEF MovedTo
    <3>2. r.at = "exec" /\ r.token = NoToken /\ NamesKnown(r.stmt)
      BY DEF AccessAssumption
    <3> QED BY <2>1, <3>1, <3>2, OneMoves
  <2> QED BY <2>1, <2>2, Leaves
<1>3. ASSUME NEW t \in Threads, CreateDatabase(t)
      PROVE  \A u \in Threads : ThreadOK(u)'
  <2>1. tokens' = tokens /\ (Left(t) \/ MovedTo(t, "default", thread[t].stmt))
    BY <1>3 DEF CreateDatabase
  <2>2. CASE MovedTo(t, "default", thread[t].stmt)
    <3> PICK s : s = thread[t].stmt
      OBVIOUS
    <3>0. NamesKnown(s)
      BY <1>3 DEF CreateDatabase, Doing, TypesInv, ThreadOK
    <3> PICK r : r = [at |-> "default", token |-> NoToken, stmt |-> s]
      OBVIOUS
    <3>1. thread' = [thread EXCEPT ![t] = r]
      BY <2>2 DEF MovedTo
    <3>2. r.at = "default" /\ r.token = NoToken /\ NamesKnown(r.stmt)
      BY <3>0
    <3> QED BY <2>1, <3>1, <3>2, OneMoves
  <2> QED BY <2>1, <2>2, Leaves
<1>4. ASSUME NEW t \in Threads,
             \/ ParseFails(t) \/ Work(t) \/ GrantDefault(t) \/ DropDatabase(t) \/ Use(t)
             \/ CreateUser(t) \/ CreateGroup(t) \/ Grant(t) \/ Login(t)
      PROVE  \A u \in Threads : ThreadOK(u)'
  <2>1. Left(t) /\ tokens \subseteq tokens'
    BY <1>4 DEF ParseFails, Work, GrantDefault, DropDatabase, Use, CreateUser, CreateGroup, Grant,
                Login, processVars
  <2> QED BY <2>1, Leaves
<1>5. CASE Tick \/ UNCHANGED accessVars
  <2>1. thread' = thread /\ tokens' = tokens
    BY <1>5 DEF Tick, accessVars
  <2> QED BY <2>1 DEF TypesInv, ThreadOK, NamesKnown
<1>6. CASE Restart
  <2>1. \A u \in Threads : thread'[u] = Idle
    BY <1>6 DEF Restart
  <2> QED BY <2>1 DEF ThreadOK, Idle
<1> QED BY <1>1, <1>2, <1>3, <1>4, <1>5, <1>6 DEF AccessNext, Exec

(* Users, grants, defaults and threads keep their types: Rbac and execute() *)
(* over any drops, restarts and grants to whoever.                          *)
THEOREM AccessTyping == AccessSpec => []AccessTypeOK
<1> USE AccessAssumption
<1>1. AccessInit => TypesInv
  BY TypesInit
<1>2. AccessInv /\ TypesInv /\ [AccessNext]_accessVars => TypesInv'
  <2> SUFFICES ASSUME AccessInv, TypesInv, [AccessNext]_accessVars PROVE TypesInv'
    OBVIOUS
  <2>1. AccountsOK' /\ TokensOK' /\ rbac_user' \in Users \cup {NoUser}
    BY AccountsStep, TokenTypesStep
  <2>2. RightsOK' /\ CatalogOK' /\ \A t \in Threads : ThreadOK(t)'
    BY RightsStep, CatalogStep, ThreadsStep DEF AccessInv
  <2> QED BY <2>1, <2>2 DEF TypesInv
<1>3. AccessInv /\ TypesInv => AccessTypeOK
  BY DEF AccessInv, TokensOfThePast, TypesInv, AccountsOK, RightsOK, CatalogOK, TokensOK, ThreadOK,
         AccessTypeOK
<1> QED BY <1>1, <1>2, <1>3, AccessInvariant, PTL DEF AccessSpec
=============================================================================
