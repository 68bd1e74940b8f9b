-------------------------- MODULE MCAccessControl --------------------------
(* Two threads; admin and one more user, who may be created with either of *)
(* two passwords; one database that comes and goes.                        *)
EXTENDS AccessControl, TLC

CONSTANTS t1, t2, admin, bob, pw1, pw2, team, shop

MCThreads == {t1, t2}
ThreadSymmetry == Permutations(MCThreads)

MCStatements ==
  {[op |-> "create_user", user |-> bob, password |-> p] : p \in {pw1, pw2}}
    \cup {[op |-> "login", user |-> u, password |-> pw1] : u \in {admin, bob}}
    \cup {[op |-> "grant", perm |-> p, db |-> shop, user |-> bob] : p \in {"read"}}
    \cup {[op |-> "create_group", group |-> team]}
    \cup {[op |-> o, db |-> shop] : o \in {"create_database", "drop_database", "use"}}
    \cup {[op |-> o] : o \in {"select", "change"}}
=============================================================================
