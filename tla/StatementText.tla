--------------------------- MODULE StatementText ---------------------------
(***************************************************************************)
(* A statement as text, from the client's file to the journal and back:    *)
(* the client cuts a file into statements and sends each on one line       *)
(* (client/main_client.cpp), the executor reads it through the lexer       *)
(* (sql/lexer.cpp) and puts it into a line of the journal, and REVERT      *)
(* reads that line through the same lexer (core/journal.cpp).              *)
(*                                                                         *)
(* A text is a sequence of characters, of which one of each class is       *)
(* enough: a quote, a semicolon, a dash (two begin a comment), a newline,  *)
(* a bar (what separates the fields of a journal line, and a character no  *)
(* token begins with), and a letter.  Numbers, operators and keywords are  *)
(* tokens like names; the parser reads tokens and never gets past a        *)
(* semicolon or the end, which a character that begins no token also is.   *)
(* Digits stand only in the time stamps of the journal, of which the lexer *)
(* is asked nothing.  In a file a word begins with a letter: one that      *)
(* begins with a digit takes dashes into itself (lexer.cpp:131), so where  *)
(* the model sees a comment the code may see a date, and what is claimed   *)
(* of texts without comments says nothing of such a text.                  *)
(***************************************************************************)
EXTENDS Integers, SequencesExt

CONSTANTS
  MaxFile,   \* bound: characters typed
  MaxTears   \* bound: appends of which only a part reaches the disk

ASSUME TextAssumption == MaxFile \in Nat /\ MaxTears \in Nat

VARIABLES
  file,      \* what has been typed
  waiting,   \* statements cut from it and not yet executed
  executed,  \* those executed, as received; for the properties
  disk,      \* the journal file
  torn       \* which of executed were torn; for the properties

textVars == <<file, waiting, executed, disk, torn>>

Blank == " "
Newline == "\n"
Quote == "\""
Semicolon == ";"
Dash == "-"
Bar == "|"
Letter == "a"
Digit == "1"
Typed == {Newline, Quote, Semicolon, Dash, Bar, Letter}
White == {Blank, Newline}
Characters == Typed \cup {Blank, Digit}

(* The first position from i on at which there is one of stops, or the end. *)
FirstOf(s, i, stops) ==
  LET hits == {j \in i .. Len(s) : s[j] \in stops} IN IF hits = {} THEN Len(s) + 1 ELSE Min(hits)

trim(s) ==
  LET ink == {i \in DOMAIN s : s[i] \notin White}
  IN  IF ink = {} THEN <<>> ELSE SubSeq(s, Min(ink), Max(ink))

Replaced(s, old, new) == [i \in DOMAIN s |-> IF s[i] \in old THEN new ELSE s[i]]

-----------------------------------------------------------------------------
(* The lexer, at a position: the token <<kind, text>> it takes there, if    *)
(* any, and where it goes on.  An unclosed string is a string that ends     *)
(* with the text; its kind is told apart for the properties.                *)
IsComment(s, i) == s[i] = Dash /\ i < Len(s) /\ s[i + 1] = Dash
Close(s, i) == FirstOf(s, i + 1, {Quote})
WordEnd(s, i) == FirstOf(s, i, Characters \ {Letter})

LexAt(s, i) ==
  CASE s[i] \in White \/ IsComment(s, i) -> <<>>
    [] s[i] = Semicolon -> <<<<"semicolon", <<>>>>>>
    [] s[i] = Quote     -> <<<<IF Close(s, i) > Len(s) THEN "unclosed" ELSE "string",
                               SubSeq(s, i + 1, Close(s, i) - 1)>>>>
    [] s[i] = Letter    -> <<<<"name", SubSeq(s, i, WordEnd(s, i) - 1)>>>>
    [] OTHER            -> <<<<"bad", <<s[i]>>>>>>

After(s, i) ==
  CASE IsComment(s, i) -> FirstOf(s, i, {Newline})
    [] s[i] = Quote    -> Close(s, i) + 1
    [] s[i] = Letter   -> WordEnd(s, i)
    [] OTHER           -> i + 1

LexFrom(s) ==
  LET lex[i \in 1 .. Len(s) + 2] ==
        IF i > Len(s) THEN <<>> ELSE LexAt(s, i) \o lex[After(s, i)]
  IN  lex

Lex(s) == LexFrom(s)[1]

(* The tokens the parser gets to see.                                       *)
Kinds(tokens) == [i \in DOMAIN tokens |-> tokens[i][1]]
Seen(tokens) == SubSeq(tokens, 1, FirstOf(Kinds(tokens), 1, {"semicolon", "bad"}) - 1)

(* execute(): the text without one semicolon at its end.                    *)
Body(text) ==
  LET t == trim(text) IN IF t # <<>> /\ Last(t) = Semicolon THEN trim(Front(t)) ELSE t
Execution(text) == Seen(Lex(Body(text) \o <<Blank>>))

-----------------------------------------------------------------------------
(* The client.  is_comment_only says no to every text with ink in it, so    *)
(* nothing but empty statements is left out.                                *)
Kept(out, cur) == IF trim(cur) = <<>> THEN out ELSE Append(out, trim(cur))

(* Mutant: quotes are not looked at. *)
Cut_InStrings(st, c) ==
  IF c = Semicolon THEN [out |-> Kept(st.out, st.cur), cur |-> <<>>, in_str |-> FALSE]
  ELSE [st EXCEPT !.cur = Append(@, c)]

Cut(st, c) ==
  IF c = Quote THEN [st EXCEPT !.cur = Append(@, c), !.in_str = ~@]
  ELSE IF c = Semicolon /\ ~st.in_str
    THEN [out |-> Kept(st.out, st.cur), cur |-> <<>>, in_str |-> FALSE]
  ELSE [st EXCEPT !.cur = Append(@, c)]

split_sql_statements(src) ==
  LET st[i \in 0 .. Len(src)] ==
        IF i = 0 THEN [out |-> <<>>, cur |-> <<>>, in_str |-> FALSE] ELSE Cut(st[i - 1], src[i])
  IN  Kept(st[Len(src)].out, st[Len(src)].cur)

flatten_sql(s) == trim(Replaced(s, {Newline}, Blank))

(* run_batch: one request per statement.                                    *)
Batch(src) ==
  LET stmts == split_sql_statements(src)
  IN  [i \in DOMAIN stmts |-> flatten_sql(Append(stmts[i], Semicolon))]

(* run_interactive: whole lines, sent as soon as they hold a semicolon.     *)
Enter(st, c) ==
  LET buf == Append(st.buf, c)
  IN  IF c = Newline /\ Contains(buf, Semicolon)
      THEN [sent |-> Append(st.sent, flatten_sql(buf)), buf |-> <<>>]
      ELSE [st EXCEPT !.buf = buf]

Interactive(src) ==
  LET st[i \in 0 .. Len(src)] ==
        IF i = 0 THEN [sent |-> <<>>, buf |-> <<>>] ELSE Enter(st[i - 1], src[i])
  IN  st[Len(src)].sent

-----------------------------------------------------------------------------
(* Journal::append.  A record's time is its number, in as many digits; its  *)
(* database is "a".                                                         *)
Stamp(n) == [i \in 1 .. n |-> Digit]
sanitize_line(s) == Replaced(s, {Newline, Bar}, Blank)

(* Mutant: lines are not ended. *)
JournalLine_Unended(n, text) == Stamp(n) \o <<Bar, Letter, Bar>> \o sanitize_line(text)

JournalLine(n, text) == Stamp(n) \o <<Bar, Letter, Bar>> \o sanitize_line(text) \o <<Newline>>

(* Journal::read: the lines with two bars, by the positions they start at.  *)
LineStarts(data) == {i \in DOMAIN data : i = 1 \/ data[i - 1] = Newline}
LineAt(data, i) == SubSeq(data, i, FirstOf(data, i, {Newline}) - 1)
FirstBar(line) == FirstOf(line, 1, {Bar})
SecondBar(line) == FirstOf(line, FirstBar(line) + 1, {Bar})
Record(line) == [ts  |-> SubSeq(line, 1, FirstBar(line) - 1),
                 db  |-> SubSeq(line, FirstBar(line) + 1, SecondBar(line) - 1),
                 sql |-> SubSeq(line, SecondBar(line) + 1, Len(line))]
Records(data) ==
  [i \in {j \in LineStarts(data) : SecondBar(LineAt(data, j)) <= Len(LineAt(data, j))} |->
     Record(LineAt(data, i))]

(* What REVERT's parser gets to see of a record.                            *)
Replay(r) == Seen(Lex(r.sql \o <<Blank>>))

-----------------------------------------------------------------------------
TextInit == file = <<>> /\ waiting = <<>> /\ executed = <<>> /\ disk = <<>> /\ torn = {}

Type(c) ==
  /\ executed = <<>> /\ waiting = <<>>
  /\ Len(file) < MaxFile
  /\ file' = Append(file, c)
  /\ UNCHANGED <<waiting, executed, disk, torn>>

(* The file is handed to the client, from a file or at the prompt.          *)
Submit ==
  /\ executed = <<>> /\ waiting = <<>>
  /\ waiting' \in {Batch(Append(file, Newline)), Interactive(Append(file, Newline))}
  /\ waiting' # <<>>
  /\ UNCHANGED <<file, executed, disk, torn>>

(* A request with no statement in it is answered with an error.             *)
Refuse ==
  /\ waiting # <<>> /\ Execution(Head(waiting)) = <<>>
  /\ waiting' = Tail(waiting)
  /\ UNCHANGED <<file, executed, disk, torn>>

(* A statement succeeds and its record is appended, of which a failing disk *)
(* may keep only a part: nobody looks at the stream's state.                *)
ExecuteNext ==
  /\ waiting # <<>> /\ Execution(Head(waiting)) # <<>>
  /\ executed' = Append(executed, Head(waiting))
  /\ waiting' = Tail(waiting)
  /\ LET n    == Len(executed) + 1
         line == JournalLine(n, Head(waiting))
     IN  \/ disk' = disk \o line /\ UNCHANGED torn
         \/ /\ Cardinality(torn) < MaxTears
            /\ \E k \in 1 .. Len(line) - 1 : disk' = disk \o SubSeq(line, 1, k)
            /\ torn' = torn \cup {n}
  /\ UNCHANGED file

TextNext == (\E c \in Typed : Type(c)) \/ Submit \/ Refuse \/ ExecuteNext

TextSpec == TextInit /\ [][TextNext]_textVars

-----------------------------------------------------------------------------
(* Properties. *)

(* Statements as the lexer reads the whole text: its tokens between the     *)
(* semicolons, each as far as the parser sees it, empty ones left out.      *)
Given(out, part) == IF part = <<>> THEN out ELSE Append(out, part)
Divided(st, token) ==
  IF token[1] = "semicolon" THEN [out |-> Given(st.out, Seen(st.cur)), cur |-> <<>>]
  ELSE [st EXCEPT !.cur = Append(@, token)]
Parts(tokens) ==
  LET st[i \in 0 .. Len(tokens)] ==
        IF i = 0 THEN [out |-> <<>>, cur |-> <<>>] ELSE Divided(st[i - 1], tokens[i])
  IN  Given(st[Len(tokens)].out, Seen(st[Len(tokens)].cur))

(* Tokens with blanks for some characters inside them.                      *)
Blanked(tokens, old) == [i \in DOMAIN tokens |-> <<tokens[i][1], Replaced(tokens[i][2], old, Blank)>>]

(* A newline inside a string becomes a blank.                               *)
OneLine(tokens) == Blanked(tokens, {Newline})
Written(text) == LET parts == Parts(Lex(text)) IN [i \in DOMAIN parts |-> OneLine(parts[i])]

Read(requests) ==
  LET read[i \in 0 .. Len(requests)] ==
        IF i = 0 THEN <<>> ELSE Given(read[i - 1], Execution(requests[i]))
  IN  read[Len(requests)]

Closed(text) == "unclosed" \notin Range(Kinds(Lex(text)))

(* A text the lexer skips a comment in, and the part before its first.      *)
InString(text, i) == Cardinality({j \in 1 .. i - 1 : text[j] = Quote}) % 2 = 1
Comments(text) == {i \in 1 .. Len(text) - 1 :
                     text[i] = Dash /\ text[i + 1] = Dash /\ ~InString(text, i)}
BeforeComments(text) == IF Comments(text) = {} THEN text ELSE SubSeq(text, 1, Min(Comments(text)) - 1)

Semicolons(text) == {i \in DOMAIN text : text[i] = Semicolon}
EndsLines(text) ==
  \A i \in Semicolons(text) : ~InString(text, i) /\ (i = Len(text) \/ text[i + 1] = Newline)
Complete(text) ==
  LET ends == {i \in Semicolons(text) : ~InString(text, i)}
  IN  IF ends = {} THEN <<>> ELSE SubSeq(text, 1, Max(ends))

(* What the server executes is what the file says, read as the lexer reads  *)
(* it: the client's own idea of strings and semicolons never disagrees with *)
(* the lexer's, as long as there is no comment and every string is closed.  *)
(* (Behind a comment it does disagree: lines are joined before they are     *)
(* sent, so the comment swallows the rest of its statement.)  What is       *)
(* complete before the first comment is not affected.  At the prompt the    *)
(* same holds when every semicolon ends its line; otherwise all but the     *)
(* first statement of a line are dropped.                                   *)
StatementsAsWritten ==
  LET batch == Read(Batch(Append(file, Newline)))
  IN  /\ IsPrefix(Written(Complete(BeforeComments(file))), batch)
      /\ Comments(file) = {} /\ Closed(file) =>
           /\ batch = Written(file)
           /\ EndsLines(file) =>
                Read(Interactive(Append(file, Newline))) = Written(Complete(file))

(* A journal brings back what was executed: each record that was written    *)
(* whole, and not right behind a torn one, is found with its own time and   *)
(* database and reads as it did when it was executed, with blanks for the   *)
(* bars in its strings.  Required of the text is only that its strings are  *)
(* closed and that it has no bar outside them: a bar ends the statement     *)
(* when it is executed, a blank does not when it is replayed.               *)
Unharmed(n) == n \notin torn /\ n - 1 \notin torn
Barless(tokens) == Blanked(tokens, {Newline, Bar})

ReplayReadsExecuted ==
  LET records == Records(disk)
      found(n) == {i \in DOMAIN records :
                     records[i].ts = Stamp(n) /\ records[i].db = <<Letter>>}
  IN  \A n \in DOMAIN executed :
        LET text == executed[n] IN
        Unharmed(n) =>
          \E i \in found(n) :
            Closed(text) /\ <<"bad", <<Bar>>>> \notin Range(Lex(text))
              => Replay(records[i]) = Barless(Execution(text))
=============================================================================
