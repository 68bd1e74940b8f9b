--------------------------- MODULE AccessControl ---------------------------
(***************************************************************************)
(* Users, tokens and permissions of one storage process: auth/rbac.cpp,    *)
(* auth/jwt.cpp, and what execute() and exec_statement do with them.       *)
(*                                                                         *)
(* A request may bring a token.  If it verifies, its name becomes          *)
(* rbac_user_, ONE name for the executor that all threads share; a request *)
(* without a token leaves it as it is.  Permissions are asked for in that  *)
(* name.  A token is verified by its signature alone: it outlives the      *)
(* process that issued it, while accounts and grants are memory.           *)
(*                                                                         *)
(* A thread goes through execute() in these steps, without a lock: token,  *)
(* permission, execution; CREATE DATABASE executes in two.  Reading the    *)
(* current database is part of the permission step.  Statements about      *)
(* tables matter only by the permission they need.                         *)
(***************************************************************************)
EXTENDS Catalog, FiniteSets

CONSTANTS
  Threads,
  Users, Admin,      \* user names; the one every process starts with
  Passwords, AdminPassword,
  Groups,
  Statements,        \* the statements clients send, records with a field op
  NoUser, NoToken,
  Ttl,               \* how long a token is valid, 3600 seconds
  MaxTime,           \* bound: the clock
  MaxTokens,         \* bound: tokens issued
  MaxRestarts        \* bound: process deaths

Perms == {"read", "write", "create_table", "drop_table", "drop_database"}

(* The names in statements are those of the model.                          *)
NamesKnown(s) ==
  /\ s.op = "create_database" => s.db \in Dbs
  /\ s.op = "create_user" => s.user \in Users /\ s.password \in Passwords
  /\ s.op = "create_group" => s.group \in Groups
  /\ s.op = "grant" => s.db \in Dbs /\ s.user \in Users /\ s.perm \in Perms

ASSUME AccessAssumption ==
  /\ Admin \in Users /\ AdminPassword \in Passwords
  /\ NoUser \notin Users /\ NoDb \notin Dbs
  /\ \A s \in Statements : NamesKnown(s)
  /\ {Ttl, MaxTime, MaxTokens, MaxRestarts} \subseteq Nat

VARIABLES
  users,      \* users_: [password, groups] by name
  groups,     \* groups_
  grants,     \* grants_: permissions by database and principal
  defaults,   \* db_defaults_
  rbac_user,  \* rbac_user_
  catalog,    \* catalog_, its tables left out
  thread,     \* thread[t]: [at, token, stmt], where t is in execute()
  overtaken,  \* history: threads since whose token another one was accepted
  tokens,     \* tokens clients hold; life and password are history
  now, life   \* the clock, and which process this is

processVars == <<users, groups, grants, defaults, rbac_user, catalog>>
accessVars == <<processVars, thread, overtaken, tokens, now, life>>

Principals == ({"user"} \X Users) \cup ({"group"} \X Groups)

Idle == [at |-> "idle", token |-> NoToken, stmt |-> [op |-> "none"]]

(* A process begins with the account admin and nothing else.               *)
FirstUsers == [u \in {Admin} |-> [password |-> AdminPassword, groups |-> {}]]
NoGrants   == [d \in Dbs |-> [p \in Principals |-> {}]]
NoDefaults == [d \in Dbs |-> {}]

AccessInit ==
  /\ users = FirstUsers /\ groups = {}
  /\ grants = NoGrants /\ defaults = NoDefaults
  /\ rbac_user = NoUser
  /\ catalog = EmptyCatalog
  /\ thread = [t \in Threads |-> Idle]
  /\ overtaken = {}
  /\ tokens = {}
  /\ now = 0 /\ life = 0

MovedTo(t, at, stmt) ==
  thread' = [thread EXCEPT ![t] = [at |-> at, token |-> NoToken, stmt |-> stmt]]

Left(t) == thread' = [thread EXCEPT ![t] = Idle]

-----------------------------------------------------------------------------
(* jwt_verify of a token this server signed: the last second still counts. *)
Verifies(token) == token.exp >= now

Waiting == {t \in Threads : thread[t].at = "known"}

(* Mutant: a name once set stays. *)
Authenticate_FirstStays(t, token) ==
  /\ thread[t] = Idle
  /\ token # NoToken => Verifies(token)
  /\ rbac_user' = IF token = NoToken \/ rbac_user # NoUser THEN rbac_user ELSE token.sub
  /\ overtaken' = IF token = NoToken THEN overtaken ELSE Waiting
  /\ thread' = [thread EXCEPT ![t] = [Idle EXCEPT !.at = "known", !.token = token]]
  /\ UNCHANGED <<users, groups, grants, defaults, catalog, tokens, now, life>>

(* The beginning of execute(), for a request that gets past it.             *)
Authenticate(t, token) ==
  /\ thread[t] = Idle
  /\ token # NoToken => Verifies(token)
  /\ rbac_user' = IF token = NoToken THEN rbac_user ELSE token.sub
  /\ overtaken' = IF token = NoToken THEN overtaken ELSE Waiting
  /\ thread' = [thread EXCEPT ![t] = [Idle EXCEPT !.at = "known", !.token = token]]
  /\ UNCHANGED <<users, groups, grants, defaults, catalog, tokens, now, life>>

(* The text is no statement: the name stays set all the same.               *)
ParseFails(t) ==
  /\ thread[t].at = "known"
  /\ Left(t)
  /\ overtaken' = overtaken \ {t}
  /\ UNCHANGED <<processVars, tokens, now, life>>

(* Rbac::check: the database's default, the user's grant, his groups'.      *)
check(user, db, perm) ==
  \/ perm \in defaults[db]
  \/ perm \in grants[db][<<"user", user>>]
  \/ user \in DOMAIN users
       /\ \E g \in users[user].groups : perm \in grants[db][<<"group", g>>]

needs_write_perm(s) == s.op \in {"change", "create_table", "drop_table",
                                 "create_database", "drop_database"}
needs_read_perm(s) == s.op = "select"

(* "forbidden": asked only in somebody's name and about the current         *)
(* database; of what writes, only changes of rows and REVERT are asked for. *)
Forbidden(user, s) ==
  LET db == Current(catalog)
  IN  /\ user # NoUser
      /\ db # NoDb
      /\ \/ needs_read_perm(s) /\ ~check(user, db, "read")
         \/ /\ needs_write_perm(s) /\ ~check(user, db, "write")
            /\ s.op \notin {"create_table", "drop_table", "create_database", "drop_database"}

LoggingIn == {t \in Threads : thread[t].stmt.op = "login"}

Permit(t, s) ==
  /\ thread[t].at = "known"
  /\ s.op = "login" => Cardinality(tokens) + Cardinality(LoggingIn) < MaxTokens
  /\ IF Forbidden(rbac_user, s) THEN Left(t) ELSE MovedTo(t, "exec", s)
  /\ overtaken' = overtaken \ {t}
  /\ UNCHANGED <<processVars, tokens, now, life>>

-----------------------------------------------------------------------------
Doing(t, op) == thread[t].at = "exec" /\ thread[t].stmt.op = op

(* Statements about tables: nothing here changes.                           *)
Work(t) ==
  /\ thread[t].at = "exec"
  /\ thread[t].stmt.op \in {"select", "change", "create_table", "drop_table"}
  /\ Left(t)
  /\ UNCHANGED <<processVars, overtaken, tokens, now, life>>

CreateDatabase(t) ==
  LET r == create_database(catalog, thread[t].stmt.db)
  IN  /\ Doing(t, "create_database")
      /\ catalog' = r.cat
      /\ IF r.ok THEN MovedTo(t, "default", thread[t].stmt) ELSE Left(t)
      /\ UNCHANGED <<users, groups, grants, defaults, rbac_user, overtaken, tokens, now, life>>

(* Mutant: the default is to read. *)
GrantDefault_ReadOnly(t) ==
  /\ thread[t].at = "default"
  /\ defaults' = [defaults EXCEPT ![thread[t].stmt.db] = {"read"}]
  /\ Left(t)
  /\ UNCHANGED <<users, groups, grants, rbac_user, catalog, overtaken, tokens, now, life>>

(* grant_default_on_new_database, after the database is in the catalog.     *)
GrantDefault(t) ==
  /\ thread[t].at = "default"
  /\ defaults' = [defaults EXCEPT ![thread[t].stmt.db] = Perms]
  /\ Left(t)
  /\ UNCHANGED <<users, groups, grants, rbac_user, catalog, overtaken, tokens, now, life>>

(* Defaults and grants of the database stay behind.                         *)
DropDatabase(t) ==
  /\ Doing(t, "drop_database")
  /\ catalog' = drop_database(catalog, thread[t].stmt.db).cat
  /\ Left(t)
  /\ UNCHANGED <<users, groups, grants, defaults, rbac_user, overtaken, tokens, now, life>>

Use(t) ==
  /\ Doing(t, "use")
  /\ catalog' = set_current(catalog, thread[t].stmt.db).cat
  /\ Left(t)
  /\ UNCHANGED <<users, groups, grants, defaults, rbac_user, overtaken, tokens, now, life>>

(* Mutant: creating a user again sets the password. *)
CreateUser_Again(t) ==
  /\ Doing(t, "create_user")
  /\ users' = With(users, thread[t].stmt.user,
                   [password |-> thread[t].stmt.password, groups |-> {}])
  /\ Left(t)
  /\ UNCHANGED <<groups, grants, defaults, rbac_user, catalog, overtaken, tokens, now, life>>

CreateUser(t) ==
  LET u == thread[t].stmt.user
  IN  /\ Doing(t, "create_user")
      /\ users' = IF u \in DOMAIN users THEN users
                  ELSE With(users, u, [password |-> thread[t].stmt.password, groups |-> {}])
      /\ Left(t)
      /\ UNCHANGED <<groups, grants, defaults, rbac_user, catalog, overtaken, tokens, now, life>>

CreateGroup(t) ==
  /\ Doing(t, "create_group")
  /\ groups' = groups \cup {thread[t].stmt.group}
  /\ Left(t)
  /\ UNCHANGED <<users, grants, defaults, rbac_user, catalog, overtaken, tokens, now, life>>

(* Mutant: a grant replaces the earlier ones of its database. *)
Grant_Replaces(t) ==
  LET s == thread[t].stmt
  IN  /\ Doing(t, "grant")
      /\ grants' = [grants EXCEPT ![s.db] = [p \in {<<"user", s.user>>} |-> {s.perm}]]
      /\ Left(t)
      /\ UNCHANGED <<users, groups, defaults, rbac_user, catalog, overtaken, tokens, now, life>>

(* GRANT asks neither who grants nor whether database and user exist; its   *)
(* principal is always a user.                                              *)
Grant(t) ==
  LET s == thread[t].stmt
  IN  /\ Doing(t, "grant")
      /\ grants' = [grants EXCEPT ![s.db][<<"user", s.user>>] = @ \cup {s.perm}]
      /\ Left(t)
      /\ UNCHANGED <<users, groups, defaults, rbac_user, catalog, overtaken, tokens, now, life>>

(* verify_password and jwt_sign_hs256: the token is all that LOGIN changes. *)
Login(t) ==
  LET s == thread[t].stmt
  IN  /\ Doing(t, "login")
      /\ \/ /\ s.user \in DOMAIN users /\ users[s.user].password = s.password
            /\ tokens' = tokens \cup {[sub |-> s.user, exp |-> now + Ttl,
                                       life |-> life, password |-> s.password]}
         \/ /\ ~(s.user \in DOMAIN users /\ users[s.user].password = s.password)
            /\ UNCHANGED tokens
      /\ Left(t)
      /\ UNCHANGED <<processVars, overtaken, now, life>>

-----------------------------------------------------------------------------
Tick ==
  /\ now < MaxTime
  /\ now' = now + 1
  /\ UNCHANGED <<processVars, thread, overtaken, tokens, life>>

(* The process dies and is started again: the secret is the same.           *)
Restart ==
  /\ life < MaxRestarts
  /\ life' = life + 1
  /\ users' = FirstUsers /\ groups' = {}
  /\ grants' = NoGrants /\ defaults' = NoDefaults
  /\ rbac_user' = NoUser
  /\ catalog' = EmptyCatalog
  /\ thread' = [t \in Threads |-> Idle]
  /\ overtaken' = {}
  /\ UNCHANGED <<tokens, now>>

Exec(t) ==
  \/ Work(t) \/ CreateDatabase(t) \/ GrantDefault(t) \/ DropDatabase(t) \/ Use(t)
  \/ CreateUser(t) \/ CreateGroup(t) \/ Grant(t) \/ Login(t)

AccessNext ==
  \/ \E t \in Threads :
       \/ \E token \in tokens \cup {NoToken} : Authenticate(t, token)
       \/ ParseFails(t)
       \/ \E s \in Statements : Permit(t, s)
       \/ Exec(t)
  \/ Tick
  \/ Restart

AccessSpec == AccessInit /\ [][AccessNext]_accessVars
-----------------------------------------------------------------------------
(* Properties. *)

(* Types.  A grant, once made, keeps every principal's entry in place, and  *)
(* defaults are all permissions or none.                                    *)
AccessTypeOK ==
  /\ DOMAIN users \subseteq Users
  /\ \A u \in DOMAIN users :
       users[u].password \in Passwords /\ users[u].groups \subseteq groups
  /\ groups \subseteq Groups
  /\ grants \in [Dbs -> [Principals -> SUBSET Perms]]
  /\ defaults \in [Dbs -> {{}, Perms}]
  /\ rbac_user \in Users \cup {NoUser}
  /\ Created(catalog) \subseteq Dbs /\ catalog.current \in Dbs \cup {NoDb}
  /\ \A t \in Threads : /\ thread[t].at \in {"idle", "known", "exec", "default"}
                         /\ thread[t].token \in tokens \cup {NoToken}
  /\ \A k \in tokens : k.sub \in Users /\ k.exp <= now + Ttl /\ k.life <= life

(* The database is in the catalog, its default is not in place yet.         *)
Arriving(d) == \E t \in Threads : thread[t].at = "default" /\ thread[t].stmt.db = d

(* Which name happens to be in rbac_user_ decides nothing: no name is       *)
(* refused anything in any database, unless the database is just being      *)
(* created by another thread.  That one name stands for all connections is  *)
(* harmless for as long as this holds, across any drops, grants and         *)
(* restarts, and so is that GRANT asks nothing of the one who grants.       *)
NameDecidesNothing ==
  \A d \in Created(catalog), user \in Users, perm \in Perms :
    ~check(user, d, perm) => Arriving(d)

(* A token of this process stands for an account that still exists and      *)
(* still has the password it was got with.  (Of a token from before a       *)
(* restart not even the account need exist, and yet it is accepted.)        *)
TokenStandsForAccount ==
  \A k \in tokens :
    k.life = life => k.sub \in DOMAIN users /\ users[k.sub].password = k.password

(* A request with a token is judged in its own name, unless another request *)
(* with a token came in between.                                            *)
OwnNameUnlessOvertaken ==
  \A t \in Threads \ overtaken :
    thread[t].at = "known" /\ thread[t].token # NoToken
      => rbac_user = thread[t].token.sub
=============================================================================
