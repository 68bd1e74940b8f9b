---------------------------- MODULE MCJobServer ----------------------------
(* Three connections, so that two jobs can be polled, or one polled twice. *)
(* One text succeeds and one fails; the process may die once.              *)
EXTENDS JobServer

CONSTANTS c1, c2, c3, good, bad
=============================================================================
