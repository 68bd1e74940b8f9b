------------------------------- MODULE MCDml -------------------------------
(* A table with an INDEXED integer and a nullable string that has no       *)
(* default, and statements that reach every branch: index and scan access, *)
(* AND, OR and parentheses over both, clauses that fail on some rows only, *)
(* multi-row statements that fail half way.                                *)
EXTENDS Dml

I(i) == [kind |-> "int", n |-> i]
S(i) == [kind |-> "string", n |-> i]

MCCols       == {"id", "note", "qty"}
MCCellValues == [c \in MCCols |-> IF c = "note" THEN {S(1)} ELSE {I(1), I(2)}]
MCNotNull    == {"qty"}
MCIndexed    == {"id"}
MCDefaults   == [c \in MCCols |-> IF c = "qty" THEN I(1) ELSE Null]

Eq(c, v)     == [kind |-> "cmp", op |-> "==", col |-> c, lit |-> v]
Cmp(o, c, v) == [kind |-> "cmp", op |-> o, col |-> c, lit |-> v]
CmpCol(o, c, d) == [kind |-> "cmpcol", op |-> o, col |-> c, right |-> d]
Between(c, a, b) == [kind |-> "between", col |-> c, lo |-> a, hi |-> b]
Like(c, m, v) == [kind |-> "like", col |-> c, matches |-> m, valid |-> v]
And(i, j)    == [kind |-> "and", left |-> i, right |-> j]
Or(i, j)     == [kind |-> "or", left |-> i, right |-> j]
Paren(i)     == [kind |-> "paren", child |-> i]

Ins(cols, tuples) == [op |-> "insert", cols |-> cols, tuples |-> tuples]
Upd(sets, w) == [op |-> "update", sets |-> sets, where |-> w]
Del(w)       == [op |-> "delete", where |-> w]
Sel(items, w) == [op |-> "select", items |-> items, where |-> w]
Agg(items, w) == [op |-> "aggregate", items |-> items, where |-> w]
Item(f, c)   == [fn |-> f, col |-> c]

IdIs1     == <<Eq("id", I(1))>>
IdOrQty   == <<Eq("id", I(1)), Eq("qty", I(2)), Or(1, 2)>>
IdAndNot  == <<Cmp("!=", "qty", I(2)), Eq("id", I(1)), And(1, 2), Paren(3)>>
LikeOrId  == <<Like("note", {S(1)}, TRUE), Cmp(">", "id", I(1)), Or(1, 2)>>
LikeAndId == <<Like("note", {S(1)}, TRUE), Cmp(">=", "id", I(1)), And(1, 2)>>

MCStatements == {
  Ins(<<"id", "note">>, <<<<I(1), S(1)>>, <<I(2), Null>>>>),
  Ins(<<"id", "qty">>, <<<<I(2), I(2)>>, <<I(2), I(1)>>>>),
  Ins(<<"id">>, <<<<I(1)>>, <<I(2), I(1)>>>>),
  Ins(<<"id", "none">>, <<<<I(1), I(1)>>>>),
  Upd(<<<<"id", I(1)>>>>, <<>>),
  Upd(<<<<"qty", I(2)>>, <<"note", S(1)>>>>, IdOrQty),
  Upd(<<<<"qty", Null>>>>, LikeOrId),
  Upd(<<<<"none", I(1)>>>>, LikeAndId),
  Del(IdAndNot),
  Del(<<Cmp("<", "note", S(1))>>),
  Del(<<>>),
  Sel(<<>>, LikeOrId),
  Sel(<<"id", "none">>, <<CmpCol("<=", "id", "qty")>>),
  Sel(<<"id">>, <<Between("id", I(1), I(1)), Eq("id", I(2)), And(1, 2)>>),
  Sel(<<>>, <<Like("note", {S(1)}, FALSE)>>),
  Sel(<<>>, LikeAndId),
  Sel(<<>>, IdOrQty),
  Agg(<<Item("count", "*"), Item("sum", "qty"), Item("avg", "id")>>, IdIs1),
  Agg(<<Item("sum", "note")>>, <<>>),
  Agg(<<Item("count", "*"), Item("none", "id")>>, <<>>)
}
=============================================================================
