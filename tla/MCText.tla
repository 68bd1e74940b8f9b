------------------------------- MODULE MCText -------------------------------
(* A client writes either a file of statements (StatementText) or the WHERE *)
(* clause of one (WhereParser); the two have nothing to do with each other. *)
EXTENDS StatementText, WhereParser

textClauseVars == <<textVars, clause>>

MCInit == TextInit /\ ClauseInit

MCNext ==
  \/ clause = <<>> /\ TextNext /\ UNCHANGED clause
  \/ file = <<>> /\ ClauseNext /\ UNCHANGED textVars

MCSpec == MCInit /\ [][MCNext]_textClauseVars
=============================================================================
