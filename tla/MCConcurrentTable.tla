------------------------- MODULE MCConcurrentTable -------------------------
(* Two threads and a table with one INDEXED column. *)
EXTENDS ConcurrentTable

CONSTANTS t1, t2, id, k1, k2

MCCellValues == [c \in {id} |-> {k1, k2}]
=============================================================================
