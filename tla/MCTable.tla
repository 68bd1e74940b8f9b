------------------------------ MODULE MCTable ------------------------------
(* A two-column table: id is INDEXED, note may be NULL; the values of note *)
(* are also offered for id, so that type mismatches occur.                 *)
EXTENDS Table

CONSTANTS id, note, k1, k2, s1

MCCols       == {id, note}
MCCellValues == [c \in MCCols |-> IF c = id THEN {k1, k2} ELSE {s1}]
MCNotNull    == {}
MCIndexed    == {id}
=============================================================================
