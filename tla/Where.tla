------------------------------- MODULE Where -------------------------------
(***************************************************************************)
(* Values, WHERE clauses and the choice of an access path:                 *)
(* src/core/value.cpp, src/sql/where_eval.cpp, and extract_index_eq and    *)
(* candidate_rows of src/exec/executor.cpp.                                *)
(*                                                                         *)
(* A non-null value is a record [kind, n]: "int" with its value, or        *)
(* "string" with its rank in lexicographic order.  A WHERE clause is the   *)
(* parser's flat array of nodes: children precede their parent, the root   *)
(* is the last node, and the empty array is a statement without WHERE.     *)
(* A LIKE pattern is the set of strings its regular expression matches.    *)
(***************************************************************************)
EXTENDS Table, Sequences

KindRank(v) == IF v = Null THEN 0 ELSE IF v.kind = "int" THEN 1 ELSE 2

\* value_cmp(a, b) < 0: NULL before integers before strings.
Less(a, b) ==
  \/ KindRank(a) < KindRank(b)
  \/ KindRank(a) = KindRank(b) /\ KindRank(a) # 0 /\ a.n < b.n

CmpValues(op, a, b) ==
  CASE op = "==" -> a = b
    [] op = "!=" -> a # b
    [] op = "<"  -> Less(a, b)
    [] op = ">"  -> Less(b, a)
    [] op = "<=" -> ~Less(b, a)
    [] op = ">=" -> ~Less(a, b)

Leaves == {"cmp", "cmpcol", "between", "like"}

IsList(f) == Len(f) \in Nat /\ DOMAIN f = 1 .. Len(f)

\* What parse_or and the functions below it return: every node names nodes
\* that were pushed before it.
IsClause(w) ==
  /\ IsList(w) /\ (w # <<>> => Len(w) # 0)
  /\ \A i \in DOMAIN w :
       /\ w[i].kind \in Leaves \cup {"paren", "and", "or"}
       /\ w[i].kind = "paren" => w[i].child \in 1 .. (i - 1)
       /\ w[i].kind \in {"and", "or"} => {w[i].left, w[i].right} \subseteq 1 .. (i - 1)

\* A leaf cannot be evaluated on this row: unknown column, LIKE on a cell
\* that is not a string (a NULL cell included), malformed pattern.
LeafFails(n, row) ==
  \/ n.col \notin Cols
  \/ n.kind = "cmpcol" /\ n.right \notin Cols
  \/ n.kind = "like" /\ (KindRank(row[n.col]) # 2 \/ ~n.valid)

LeafHolds(n, row) ==
  CASE n.kind = "cmp"     -> CmpValues(n.op, row[n.col], n.lit)
    [] n.kind = "cmpcol"  -> CmpValues(n.op, row[n.col], row[n.right])
    [] n.kind = "between" -> /\ CmpValues(">=", row[n.col], n.lo)
                             /\ CmpValues("<=", row[n.col], n.hi)
    [] n.kind = "like"    -> row[n.col] \in n.matches

Outcome(hit, err) == [hit |-> hit, err |-> err]

\* A leaf reports its own failure and is otherwise blind to an error that
\* was there before.
EvalLeaf(n, row, err) ==
  IF LeafFails(n, row) THEN Outcome(FALSE, TRUE)
                       ELSE Outcome(LeafHolds(n, row), err)

\* Both operands are evaluated unless the error string is not empty after the
\* first: then, or after the second, the whole node is false.
EvalBinary(n, left, right) ==
  IF left.err \/ right.err
    THEN Outcome(FALSE, TRUE)
    ELSE Outcome(IF n.kind = "and" THEN left.hit /\ right.hit
                                   ELSE left.hit \/ right.hit, FALSE)

\* eval_node: err is the caller's error string being non-empty, passed in and
\* out by reference; node yields what the nodes before n evaluate to.
EvalNode(n, node, row, err) ==
  CASE n.kind \in Leaves -> EvalLeaf(n, row, err)
    [] n.kind = "paren"  -> node[n.child][err]
    [] OTHER             -> EvalBinary(n, node[n.left][err], node[n.right][FALSE])

\* eval_where: the error string is never cleared between two rows.
eval_where(w, row, err) ==
  LET node[i \in 1 .. Len(w)] == [e \in BOOLEAN |-> EvalNode(w[i], node, row, e)]
  IN IF w = <<>> THEN Outcome(TRUE, err) ELSE node[Len(w)][err]

-----------------------------------------------------------------------------
IndexedEq(n) == n.kind = "cmp" /\ n.op = "==" /\ n.col \in Indexed

ExtractNode_ThroughOr(n, node) == \* mutant
  CASE n.kind = "paren" -> node[n.child]
    [] n.kind \in {"and", "or"} ->
         IF node[n.left] # <<>> THEN node[n.left] ELSE node[n.right]
    [] OTHER -> IF IndexedEq(n) THEN <<n.col, n.lit>> ELSE <<>>

\* extract_index_eq: the first `indexed column == literal` reached through
\* AND and parentheses only; <<>> when there is none.
ExtractNode(n, node) ==
  CASE n.kind = "paren" -> node[n.child]
    [] n.kind = "and"   -> IF node[n.left] # <<>> THEN node[n.left] ELSE node[n.right]
    [] OTHER            -> IF IndexedEq(n) THEN <<n.col, n.lit>> ELSE <<>>

extract_index_eq(w) ==
  LET node[i \in 1 .. Len(w)] == ExtractNode(w[i], node)
  IN IF w = <<>> THEN <<>> ELSE node[Len(w)]

\* candidate_rows: the rows under the key, or all rows when the clause names
\* no key, the column has no index, or no row has the key.
candidate_rows(w) ==
  LET eq  == extract_index_eq(w)
      ids == IF eq # <<>> /\ eq[1] \in Indexed THEN FindEqual(eq[1], eq[2]) ELSE {}
  IN IF ids # {} THEN ids ELSE DOMAIN rows

-----------------------------------------------------------------------------
\* The meaning of a WHERE clause over a set of rows, as relational algebra
\* has it: AND intersects, OR unites, and a leaf that cannot be evaluated on a
\* row does not select it.
MeaningNode(n, node, table) ==
  CASE n.kind \in Leaves ->
         {r \in DOMAIN table : ~LeafFails(n, table[r]) /\ LeafHolds(n, table[r])}
    [] n.kind = "paren"  -> node[n.child]
    [] n.kind = "and"    -> node[n.left] \cap node[n.right]
    [] n.kind = "or"     -> node[n.left] \cup node[n.right]

Satisfying(w, table) ==
  LET node[i \in 1 .. Len(w)] == MeaningNode(w[i], node, table)
  IN IF w = <<>> THEN DOMAIN table ELSE node[Len(w)]

\* Every leaf of the clause can be evaluated on every row.
Evaluable(w, table) ==
  \A i \in 1 .. Len(w), r \in DOMAIN table :
    w[i].kind \in Leaves => ~LeafFails(w[i], table[r])
=============================================================================
