---------------------------- MODULE WhereParser ----------------------------
(***************************************************************************)
(* The WHERE clause of a statement: Parser::parse_where and what it calls  *)
(* (sql/parser.cpp).  The parser reads tokens and builds the flat array of *)
(* nodes that Where evaluates: children before their parents, the root     *)
(* last.  It stops behind the clause; that the statement ends there is     *)
(* asked by nobody.                                                        *)
(*                                                                         *)
(* A token is <<kind, text>>.  What a function of the parser does depends  *)
(* on the position of the next token and on how many nodes there are: it   *)
(* is a function of the two.  Its result is a record [ok, at, nodes]: the  *)
(* position it stops at and the nodes it pushes, of which the last is the  *)
(* one it returns.                                                         *)
(***************************************************************************)
EXTENDS Integers, SequencesExt

CONSTANTS
  Columns,    \* columns of integers
  Texts,      \* columns of strings
  MaxPieces   \* bound: pieces of a clause

ASSUME ClauseAssumption == MaxPieces \in Nat /\ Columns \cap Texts = {}

VARIABLE clause   \* the tokens behind the table's name, in pieces

Kw(w) == <<"kw", w>>
LParen == <<"(", "(">>
RParen == <<")", ")">>
End == <<"eof", "">>

TokenAt(ts, i) == IF i <= Len(ts) THEN ts[i] ELSE End
IsA(ts, i, kind) == TokenAt(ts, i)[1] = kind
IsLiteral(ts, i) == IsA(ts, i, "number") \/ IsA(ts, i, "string") \/ TokenAt(ts, i) = Kw("NULL")

Failed(i) == [ok |-> FALSE, at |-> i, nodes |-> <<>>]
Parsed(i, nodes) == [ok |-> TRUE, at |-> i, nodes |-> nodes]

-----------------------------------------------------------------------------
(* parse_predicate: a comparison with a column or a literal, BETWEEN, whose *)
(* AND is its own, or LIKE, whose pattern is a string.                      *)
parse_predicate(ts, i) ==
  LET col == TokenAt(ts, i)[2]
  IN  IF ~IsA(ts, i, "ident") THEN Failed(i)
      ELSE CASE TokenAt(ts, i + 1) = Kw("BETWEEN") ->
                  IF IsLiteral(ts, i + 2) /\ TokenAt(ts, i + 3) = Kw("AND") /\ IsLiteral(ts, i + 4)
                  THEN Parsed(i + 5, <<[kind |-> "between", col |-> col, lo |-> ts[i + 2][2],
                                        hi |-> ts[i + 4][2]]>>)
                  ELSE Failed(i)
             [] TokenAt(ts, i + 1) = Kw("LIKE") ->
                  IF IsA(ts, i + 2, "string")
                  THEN Parsed(i + 3, <<[kind |-> "like", col |-> col, matches |-> {ts[i + 2][2]},
                                        valid |-> TRUE]>>)
                  ELSE Failed(i)
             [] IsA(ts, i + 1, "op") /\ IsA(ts, i + 2, "ident") ->
                  Parsed(i + 3, <<[kind |-> "cmpcol", op |-> ts[i + 1][2], col |-> col,
                                   right |-> ts[i + 2][2]]>>)
             [] IsA(ts, i + 1, "op") /\ IsLiteral(ts, i + 2) ->
                  Parsed(i + 3, <<[kind |-> "cmp", op |-> ts[i + 1][2], col |-> col,
                                   lit |-> ts[i + 2][2]]>>)
             [] OTHER -> Failed(i)

(* parse_bool_primary, given what parse_bool_or does inside parentheses.    *)
parse_bool_primary(ts, inside) ==
  [i \in Nat |-> [size \in Nat |->
     IF TokenAt(ts, i) # LParen THEN parse_predicate(ts, i)
     ELSE LET inner == inside[i + 1][size]
          IN  IF inner.ok /\ TokenAt(ts, inner.at) = RParen
              THEN Parsed(inner.at + 1,
                          Append(inner.nodes, [kind |-> "paren", child |-> size + Len(inner.nodes)]))
              ELSE Failed(inner.at)]]

(* A turn of a loop: an operand more, and the node that joins it to what    *)
(* there is.                                                                *)
Joined(kind, operand, size, left) ==
  LET l     == size + Len(left.nodes)
      right == operand[left.at + 1][l]
  IN  IF right.ok
      THEN Parsed(right.at, left.nodes \o right.nodes
                              \o <<[kind |-> kind, left |-> l, right |-> l + Len(right.nodes)]>>)
      ELSE Failed(right.at)

(* The loops: as long as the keyword follows.  There are no more turns than *)
(* tokens.                                                                  *)
Loop(ts, kw, kind, operand) ==
  [i \in Nat |-> [size \in Nat |->
     LET turn[n \in 0 .. Len(ts)] ==
           IF n = 0 THEN operand[i][size]
           ELSE LET left == turn[n - 1]
                IN  IF left.ok /\ TokenAt(ts, left.at) = Kw(kw)
                    THEN Joined(kind, operand, size, left) ELSE left
     IN  turn[Len(ts)]]]

parse_bool_and(ts, inside) == Loop(ts, "AND", "and", parse_bool_primary(ts, inside))

(* Mutant: AND and OR have changed places. *)
Disjunction_Swapped(ts, inside) ==
  Loop(ts, "AND", "and", Loop(ts, "OR", "or", parse_bool_primary(ts, inside)))

Disjunction(ts, inside) == Loop(ts, "OR", "or", parse_bool_and(ts, inside))

(* parse_bool_or: parentheses are nested no deeper than there are tokens.   *)
parse_bool_or(ts) ==
  LET nested[n \in 0 .. Len(ts)] ==
        IF n = 0 THEN [i \in Nat |-> [size \in Nat |-> Failed(i)]]
        ELSE Disjunction(ts, nested[n - 1])
  IN  nested[Len(ts)]

(* No WHERE where one could be is no clause, whatever there is instead.     *)
parse_where(ts) ==
  IF TokenAt(ts, 1) # Kw("WHERE") THEN Parsed(1, <<>>) ELSE parse_bool_or(ts)[2][0]

-----------------------------------------------------------------------------
(* A client writes a clause piece by piece, a piece being a predicate or a  *)
(* single token, for as long as the parser could make use of another.       *)
One == [kind |-> "int", n |-> 1]
Zero == [kind |-> "int", n |-> 0]
Name == [kind |-> "string", n |-> 1]
Other == [kind |-> "string", n |-> 2]

Comparisons == {<<<<"ident", c>>, <<"op", "==">>, <<"number", One>>>> : c \in Columns}
Ranges == {<<<<"ident", c>>, Kw("BETWEEN"), <<"number", One>>, Kw("AND"), <<"number", One>>>> :
             c \in Columns}
Likes == {<<<<"ident", c>>, Kw("LIKE"), <<"string", Name>>>> : c \in Texts}
Trues == {<<<<"ident", c>>, <<"op", "==">>, <<"ident", c>>>> : c \in Texts}

Pieces ==
  Comparisons \cup Ranges \cup Likes \cup Trues
    \cup {<<t>> : t \in {Kw("WHERE"), Kw("AND"), Kw("OR"), LParen, RParen, <<"ident", "WERE">>}}

ClauseTokens == FlattenSeq(clause)

ClauseInit == clause = <<>>

Write(piece) ==
  /\ Len(clause) < MaxPieces
  /\ parse_where(ClauseTokens).at > Len(ClauseTokens)
  /\ clause' = Append(clause, piece)

ClauseNext == \E piece \in Pieces : Write(piece)

ClauseSpec == ClauseInit /\ [][ClauseNext]_clause

-----------------------------------------------------------------------------
(* Properties. *)

(* A WHERE clause as it is read everywhere: on its outermost level OR       *)
(* separates alternatives, AND what each of them asks, and parentheses are  *)
(* opened last.  What the pieces mean on a row: "yes", "no", or "none" when *)
(* they mean nothing.                                                       *)
Depth(u, i) ==
  Cardinality({j \in 1 .. i : u[j] = <<LParen>>}) - Cardinality({j \in 1 .. i - 1 : u[j] = <<RParen>>})
Separators(u, kw) == {i \in DOMAIN u : u[i] = <<Kw(kw)>> /\ Depth(u, i) = 0}

Truth(b) == IF b THEN "yes" ELSE "no"
Combined(kw, l, r) ==
  IF "none" \in {l, r} THEN "none"
  ELSE Truth(IF kw = "AND" THEN {l, r} = {"yes"} ELSE "yes" \in {l, r})

PieceMeans(piece, row) ==
  CASE piece \in Comparisons \cup Ranges \cup Likes -> Truth(row[piece[1][2]] \in {One, Name})
    [] piece \in Trues -> "yes"
    [] OTHER -> "none"

(* Given what shorter sequences mean.                                       *)
Says(u, means, row) ==
  LET split(kw) ==
        LET i == Max(Separators(u, kw))
        IN  Combined(kw, means[SubSeq(u, 1, i - 1)], means[SubSeq(u, i + 1, Len(u))])
  IN  IF Separators(u, "OR") # {} THEN split("OR")
      ELSE IF Separators(u, "AND") # {} THEN split("AND")
      ELSE CASE Len(u) > 2 /\ u[1] = <<LParen>> /\ u[Len(u)] = <<RParen>> ->
                  means[SubSeq(u, 2, Len(u) - 1)]
             [] Len(u) = 1 -> PieceMeans(u[1], row)
             [] OTHER -> "none"

Meaning(u, row) ==
  LET means[n \in 0 .. Len(u)] ==
        [v \in Seq(Pieces) |-> IF n = 0 THEN "none" ELSE Says(v, means[n - 1], row)]
  IN  means[Len(u)][u]

(* The evaluator of Where on a row of these columns.                        *)
W == INSTANCE Where WITH
  Cols <- Columns \cup Texts, Null <- [kind |-> "null", n |-> 0], CellValues <- <<>>,
  NotNull <- {}, Indexed <- {}, MaxRid <- 0,
  rows <- <<>>, nextRid <- 1, index <- <<>>, reply <- <<>>

Rows == {row \in [Columns \cup Texts -> {Zero, One, Name, Other}] :
           /\ \A c \in Columns : row[c] \in {Zero, One}
           /\ \A c \in Texts : row[c] \in {Name, Other}}

(* A clause selects the rows it says: a text that is a clause is accepted   *)
(* to its end; what is accepted is WHERE and a clause that ends in front of *)
(* something the parser cannot use and does not look at, or no clause at    *)
(* all; and evaluating the nodes the parser built gives what the clause     *)
(* means, precedence, BETWEEN's own AND and parentheses included.  The      *)
(* nodes name earlier nodes only, on which all statements about clauses     *)
(* rest.                                                                    *)
ClauseAsWritten ==
  LET ts == ClauseTokens
      p  == parse_where(ts)
  IN  IF TokenAt(ts, 1) # Kw("WHERE") THEN p.ok /\ p.nodes = <<>>
      ELSE /\ \A row \in Rows : Meaning(Tail(clause), row) # "none" => p.ok /\ p.at = Len(ts) + 1
           /\ p.ok =>
                /\ W!IsClause(p.nodes)
                /\ TokenAt(ts, p.at) \notin {Kw("AND"), Kw("OR")}
                /\ \E n \in 2 .. Len(clause) :
                     /\ p.at = Len(FlattenSeq(SubSeq(clause, 1, n))) + 1
                     /\ \A row \in Rows :
                          Meaning(SubSeq(clause, 2, n), row)
                            = Truth(W!eval_where(p.nodes, row, FALSE).hit)
=============================================================================
